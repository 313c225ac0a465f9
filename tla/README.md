# TLA+ models and proofs for sr-scanner-demo

The program is a cut-down StarRocks backend that reads a table from an external
database. A pipeline driver pulls chunks from a scan operator; the operator's
chunk source opens a JDBC data source; that asks the driver manager for the jar
of the JDBC driver (downloading it when needed), starts a Java scanner through
JNI, and reads the query's result from it in chunks.

## 1. Inventory

| Part | State | Operations | Works with |
|---|---|---|---|
| JDBC driver manager (`be/runtime/jdbc_driver_manager.*`) | `_entry_map`, entries with `is_available`, `should_delete`, `is_downloaded`, two kinds of lock, the driver directory | `init`, `get_driver_location`, `_download_driver`, `_parse_from_file_name`, `_generate_driver_location`, destructors | file system, `DownloadUtil`; called by `JDBCDataSource` |
| Download (`be/util/download_util.*`, `md5`, `defer_op`) | a stream on a temporary file, digest | `download` | `HttpClient`, file system |
| HTTP client (`be/http`) | curl handle, header list, callback | `init`, setters, `execute`, `execute_with_retry`, `download`, destructor | libcurl |
| File helpers (`be/fs/fs_util.h`) | none | list, create, delete | `std::filesystem` |
| Java scanner (`fe/.../JDBCScanner.java`) | connection, statement, result set, reused row arrays, `resultNumRows` | `open`, `hasNext`, `getNextChunk`, `getResultNumRows`, `close` | `DataSourceCache`, HikariCP, the driver |
| Data source cache (`DataSourceCache.java`) | map from user and url to a pool | `getSource` | shared by all scanners |
| C++ scanner (`be/scanner`) | JNI references and method ids | `open`, `get_next`, `close`, `_close_jdbc_scanner` | the Java scanner |
| JNI helpers (`be/udf`) | one JVM, its creator's `JNIEnv`, handed to every thread; the exception pending in it | `getInstance`, `newInstance`, calls on lists, strings, exceptions | C++ scanner |
| Scan pipeline (`be/operator`, `be/source`, `be/datasource`, `mock_pipeline_driver`, `main`) | chunk source, statuses, `_opened` | `process`, `pull_chunk`, `buffer_next_batch_chunks_blocking`, `_read_chunk`, `get_next` | C++ scanner |
| `Status`, `StatusOr`, `RuntimeState` | owned message; first error | copy, move, `set_process_status` | everything |
| Descriptors and types (`be/table`, `be/runtime/types*`) | tables built once | lookups | pipeline |
| googletest (`be/third_party`) | | | vendored, not part of the program |

What is hard here: `get_driver_location` holds `_lock` only while it picks an
entry and downloads outside it, so entries are replaced under a running
download; the directory outlives the process; almost no status is looked at, so
every failure continues into the next step; Java scanners share a cache and a
connection pool of fixed size; and the chunk loop and `hasNext` both move the
same cursor. `PROJECT.json` lists the hazards at their lines.

`main` runs one query on one thread. The mutexes and atomics of the driver
manager and the `ConcurrentHashMap` of the cache are there for many, and the
models have many: the properties are those the locks are meant to give.

What makes each part correct:

* driver manager: the answer is a jar of the driver and checksum asked for, whole
  and unchanging while it is used; an entry is downloaded once; map and deletion
  marks agree; every call returns; a restart comes up, and keeps the newest jar;
* HTTP client: a reused client sends nothing of an earlier request, nothing it
  points to is freed, nothing is left behind; a retry ends and reports what
  happened;
* Java scanner: every row once, in order, in full chunks, then the end; no more
  connections than the pool allows, and none lost;
* C++ scanner: a Java exception is seen by the call that got it and gone after it;
  every call ends;
* pipeline: an error reaches the driver, the end of the result ends the scan,
  drivers do not end each other;
* `Status`: a message is freed once.

## 2. Modules

| Module | Models |
|---|---|
| `DriverFileName` | file names of the driver directory, written and parsed |
| `JDBCDriverManager` (extends `DriverFileName`) | `init`, `get_driver_location`, the download, crash and restart |
| `DriverLookup` | what `get_driver_location` promises its callers; `JDBCDriverManager` implements it |
| `DriverFileNameProofs`, `JDBCDriverManagerProofs`, `JDBCDriverJarProofs`, `DriverCallProofs` | their theorems: file names, registry, jars, calls |
| `MCJDBCDriverManager` | constant values for TLC |
| `RowStream` | which rows a scan takes across JNI, and when it says the end |
| `JDBCScanner` | Java scanner, cache, pool, and the C++ calls on them; implements `RowStream` |
| `JDBCScannerProofs` | its theorems |
| `MCJDBCScanner` | constant values for TLC |
| `JNIScanner` | the C++ scanner call by call over JNI; implements `JDBCScanner` |
| `JNIScannerProofs` | its theorems |
| `MCJNIScanner` | constant values for TLC |
| `ScanPipeline` (extends `JDBCScanner`) | drivers, scan operator, chunk source and data source on top of the scanners |
| `ScanPipelineProofs` | its theorems; builds on `JDBCScannerProofs` |
| `MCScanPipeline` | constant values for TLC |
| `HttpClient` | an HTTP client, its reuse, and `execute_with_retry` |
| `HttpClientProofs` | its theorems |
| `StatusOwnership` | who frees the message of a `Status` |

### JDBCDriverManager

`entry` is the heap of `JDBCDriverEntry` objects, `entryMap` is `_entry_map`,
`files` the driver directory, `proc` and `todo` the process and `init`'s loop.
Per thread, `pc` is the place in `get_driver_location`, `req` its arguments,
`cur` its local `shared_ptr`, `loc` its result and `xfer` the frame of
`DownloadUtil::download`.

The block under `_lock` is one action with four alternatives (`ServeAvailable`,
`JoinDownload`, `CreateEntry`, `ReplaceEntry`). Then come `FindDownloaded` or
`BeginDownload` (`download_lock` and the second look at `is_downloaded`),
`OpenTmp`, `ReceiveBlock`, `EndTransfer` (digest), `RenameTmp`, `CloseStream`
(the `DeferOp`) and `MarkDownloaded`, with their failures. Steps of different
threads interleave freely. An entry without references disappears
(`DropUnreferenced`); its destructor removes no file, which is what the code
does.

`init` is one step per file. A jar whose name is accepted is `LoadJar`, which
ends the process: line 101 compares where it means to assign, and line 102
writes through the null pointer. Hence `_entry_map` never has an entry during
`init` and lines 108 to 127 never run.

`DriverLookup` is the same manager as its callers see it: a current location per
driver name, and a call that takes effect in one step and answers later what it
found then. `currentBar` is the location of the entry in the map, `chosenBar`
that of the entry a call holds, `answerBar` the result of a call that has
returned. The block under `_lock` is `LookUp` (or `AnswerAtOnce`), the end of a
call `Answer`, and everything the download does in between does not show.

Abstractions. A file is `NBlocks` blocks, each a hole, good or bad, and the MD5
matches exactly when all are good. A name is its `_`-separated tokens, because
splitting at `_` is all the code does to it; `ToStr` and `Stol` stand for
`std::to_string` and `std::stol` with the law that one undoes the other.
`fs::deleteFile` falls off its end without a value; `DeleteOutcomes` holds what
that can do, go on or die. It throws when the file cannot be removed, as
`listDirectory` and `createDirectory` do when there is no directory to list or it
cannot be made; nobody catches these, and the process dies with the file still
there. `Faults` names the failures of the environment a run
allows. A stream follows its file through a rename and loses it when another
file is renamed over it, as on POSIX.

### JDBCScanner

`sources` is `DataSourceCache.sources`, `used` the connections each pool has
out, and per scanner `pc`, `dataSource`, `cursor` (of the `ResultSet`), `num`
(`resultNumRows`) and `chunk` (the reused arrays). `eos` is what `get_next` last
reported, and `fetched` a history of the rows whose arrays C++ has taken from the
list that `getNextChunk` returned. That is as far as a row gets: `_file_chunk`
resets `*chunk`, looks at each array, and copying it is still a todo
(`jdbc_scanner.cpp:248-256`). No row reaches the caller of `get_next`, and every
statement about rows here, `RowStream` included, is about rows crossing JNI.

`open` is `GetSource` (`computeIfAbsent`, atomic per key), `GetConnection` and
`Execute`; `get_next` is `HasNext`, one `ReadRow` per turn of the loop in
`getNextChunk`, and `FillChunk`; `Close` is `_close_jdbc_scanner`. The C++ code
ignores all statuses: after a failed `open` or `getNextChunk` it calls a method
of a null list, which the JVM does not survive (`Die`); after a failed `hasNext`
it reports the end. If only a column's class is missing, `open` throws after the
list of names was made, the C++ side goes on, and the first `getNextChunk`
throws (`columns`). The tuple is assumed to have at least one slot.

`_close_jdbc_scanner` has no caller at this commit. `CallsClose` says whether an
owner calls it; with `FALSE` the model is the code as it is.

HikariCP and the driver are external: a pool never hands out more than
`PoolSize` connections, and `next()` stays false after the last row. For the
scanners in `Breaking` it may throw, which leaves it on its row; `get_next` then
says `*eos`, and a caller that asks again may get the rows that are left, so
`RowStream` has an early `End` and a `Resume` for those scanners. A row is
its number; converting column values is left out. `Crash` is the end of the
process for a reason outside the scanners, such as the null pointers of the
pipeline above them.

### JNIScanner

`JDBCScanner` takes a Java call and the check behind it as one step. This module
takes them apart, and `J`, an instance of `JDBCScanner`, is its abstract
specification. `at` is where a scanner is, `hasNext` the local `has_next` of
`get_next`. `jniInit` is the thread that created the virtual machine, `env` the
thread-local `_env` of each thread, named by the thread the environment belongs
to; `pending` is the exception in an environment, named by the scan that caused
it.

`GetInstance`, `InitBridge`, `InitScanContext` and, for `_init_jdbc_scanner`,
`GetSource`, `GetConnection`, `Execute` and `CheckOpen`, then `InitColumns` are
`open`. `CallHasNext` and `CheckHasNext`, `ReadRow` and `CheckChunk`, `FileChunk`
are `get_next`; `CallClose` and `CheckClose` are `_close_jdbc_scanner`. The Java
calls with a check behind them, `setClassLoader`, `open`, `hasNext`,
`getNextChunk` and `close`, have an action for throwing, which leaves an exception
pending; the constructor of the context and the getters cannot throw. `Check` is
`CHECK_JAVA_EXCEPTION`: the exception goes, and nobody reads the status. What Java
does in between is taken from `J`.

A check does not ask whose exception it finds. `Foreign` is the case that it is of
a scan of another thread: then `_has_next` leaves `has_next` false, so that
`get_next` reports an end that is none, and `_get_next_chunk` leaves `num_rows` at
zero, so that the rows of the chunk are lost (`noRows`).

The mapping. `pcBar` gives the place in `JDBCScanner`; a call that has thrown
is still where it was, because the process dies only when the code uses the null
list (`NoColumnNames`, `NoChunk`). `numBar` and `eosBar` are assigned one step
earlier than in the code, with the answer of `hasNext`.

What is left out or assumed: the status of `detect_java_runtime` is dropped, so
`JAVA_HOME` changes nothing; a tuple has at least one slot and no more slots than
the result has columns, so that the unchecked `list_get` at `jdbc_scanner.cpp:251`
and the one in `_init_column_class_name` do not throw; `_file_chunk` and `close`
have no return statement, and what a build makes of that is `Crash` or nothing; JNI
references are not counted; the context class loader is not kept, and whether
HikariCP finds the driver's class is the choice between `GetSource` and the source
fault. JNI does not define what a call through another thread's environment does.
The model has the mildest outcome: the call works, and only its exceptions are
shared. A violation with several threads is then one in any virtual machine, and
what is claimed for several threads (`ExceptionContained`, the pool limit, the
length of calls) is claimed under that outcome.

### ScanPipeline

A driver is named by its scanner, for it has one operator, one chunk source, one
data source and one scanner. `stage` is how far its `process` call is, `descTbl`
its `RuntimeState::_desc_tbl`, and `chunkSource` the operator's chunk source with
`_opened` and the two members called `_status`: the one of `ChunkSource`
(`status`) and the one of `ConnectorChunkSource` that hides it (`readStatus`).

`Process` is `pull_chunk` up to the first `_read_chunk`; `OpenDataSource`,
`CreateScanner` and `OpenScanner` are `JDBCDataSource::open` and
`_create_scanner`. The error path of `_create_scanner` is dead code, because
`get_driver_location` returns OK on all its paths, and has no action.
`ReadChunk` is the loop around the scanner's `get_next`. `NullDescTbl`,
`NullTuple` and `NullChunk` are the dereferences of null that the code runs into; `NullChunk` is every chunk with rows, because `_file_chunk`
resets the chunk that `JDBCDataSource::get_next` then asks for its size.

`main` gives `process` a runtime state without a descriptor table, which is
`"null"` in `DescTbls`: that program dies in `open`. `"empty"` and `"filled"` are
what a caller of `set_desc_tbl` would give, and let the rest of the code run.
The loop of `_read_chunk` has no exit but the death of the process, so what
follows it has no actions.

`OpenScanner` and `ReadChunk` use the actions of `JDBCScanner` itself, so a
behaviour of the pipeline is one of `JDBCScanner` by the way it is built, with its
own steps as stuttering and its null pointers as `Crash`.

What can be promised of this pipeline is little: every chunk with rows ends the
process, and a connection is never given back, so that one driver more than the
pool has connections ends it too. `Quiet` is what is left: the drivers started so
far are no more than `PoolSize`, and each has its tuple and an empty result. Then
none of them ends the process (`QuietDriversSurvive`, unless the database or the
driver fails in that step) and each is told the end (`QuietDriversEnd`), in any
interleaving with drivers that have not been started.

### HttpClient

`curl` is `_curl` with the options of the easy handle, `headerList` is
`_header_list`, `handles` and `allocated` count what libcurl has given out and not
got back, and `status` is what the last request or `init` returned. `retryTimes`,
`i` and `retryStatus` are the variables of `execute_with_retry`, and `oks` and
`fails` what its callback returned. `owner` says in whose hands the client is: a
caller's, or those of the callback of a retry, which has a client of its own for
every try.

Every public method that changes the client is an action, in any order, as the
callers may make them; `InitFails` is a failing `curl_easy_init` and the second
alternative of `InitClient` an option that cannot be set. What an option says is
left out: a setting is the number of the `init` after which it was made, which
tells whether it belongs to the request it is sent with. The method options are
one option, so which method libcurl picks when several were set in one use is not
modelled. `curl_slist_append` is assumed not to run out of memory. `download`
returns OK whatever `execute` returns; only a file that cannot be opened or
written is an error, and that is what `Download` does.

### StatusOwnership

`local` is a thread's `Status`, `result` the one in the `StatusOr` made from it,
`processStatus` the shared one of `RuntimeState`, each as its `_state` pointer;
`heap` says which arrays are allocated. Constructing, copying (which copies the
pointer, as the defaulted members do), moving and destroying are the actions.

## 3. Runs

| Run | Checks | Instance |
|---|---|---|
| `registry` | `TypeOK`, `RegistryConsistent`, `ServedMatchesRequest`, `DownloadExclusive`, `LockHasDownloader`, `ImplementsLookup`, `CallShortens`, `CallReturns` | 2 threads, 2 versions of one driver, 3 entries, failing `mkdir`, `fopen` and last write, crash, fairness |
| `integrity` | `JarIntegrity`, `ServedJarStable`, `StartupCompletes` | 2 threads, 2 drivers of one version, 2 clock values, leftovers, all faults of a download except a failing `fclose`, a directory that cannot be made or listed, files that cannot be removed, crash, fairness |
| `scan` | `TypeOK`, `PoolLimit`, `ConnectionsAccounted`, `RowStreamSpec`, `ScanShortens`, `ScanEnds` | 2 scanners on a pool of one connection, 1 on another, results of 0, 5 and 4 rows in chunks of 2, all faults, `hasNext` throwing for one scanner, `close` called, fairness |
| `jni` | `JNITypeOK`, `ExceptionContained`, `ImplementsScanner`, `JNICallShortens`, `CallEnds` | the scanners of `scan` on one thread, results of 0, 3 and 4 rows, all faults of the database and of the virtual machine, fairness |
| `pipeline` | `PipelineTypeOK`, `ConnectionHasReader`, `QuietDriversSurvive`, `QuietDriversEnd` | 3 drivers on a pool of 2, results of 0, 0 and 3 rows in chunks of 2, every descriptor table, all faults, `hasNext` throwing for the third, fairness |
| `http` | `TypeOK`, `RequestFresh`, `HeadersAlive`, `NothingLeaked`, `RetryHonest`, `RetryReturns` | 2 uses of a client, 2 header lists, `retry_times` from -1 to 2, fairness |
| `finding_*` | one property each, violated | see section 5 |

Why the bounds are enough to meet the hard cases. Two versions and three entries
let a version be replaced and asked for again while its first entry is still
being downloaded. Two clock values allow equal and different timestamps and a
clock that steps back. Two blocks allow a file that is partly written and partly
buffered. Two threads on two drivers give a downloader and a waiter, or two
downloads at a time; `JarIntegrity` is proved for any number. `registry` leaves out
the failures that end a call in the same way as a failing `fopen`; its invariants
are proved with all of them. `Leftovers` has one file of every kind `init`
tells apart. Rows 0, 5 and 4 with chunks of 2 are the empty result, a broken
last chunk and an end that falls on a chunk boundary; two scanners on one
connection make the second wait for the first one's `close`. `hasNext` may throw
for one scanner only in `scan`, so that the run also shows that the end is never
early for the others. In `pipeline` two drivers may be quiet together and use up
the pool; the third fills a chunk and more, may break, and meets a pool whose two
connections never come back. A driver with an
underscore in its name is in `registry`, because only there `LoadJar` can
happen; `integrity` has names without one, because with one the property is false
(`finding_crash_loop`). Two uses of a client are a use and the next one, and two
lists let a list be freed while another is made; -1, 0, 1 and 2 tries are none
(twice), one, and one after another.

In `jni` two scans compete on one thread for one connection, so that the second
waits in vain for the first; the third has a data source of its own.
`finding_shared_env` has the same scans on two threads.

Symmetry (threads) is used in `finding_shared_tmp` only, which checks one
invariant. `CHECK_DEADLOCK FALSE` stands in the scanner, JNI and pipeline runs
only: when all scanners are closed, or the process is dead, nothing more happens.

Fairness. `FairSpec` of `JDBCDriverManager` gives weak fairness to the start-up
(a started process runs `init`; a supervisor restarts a dead one) and to the
steps of a thread inside a call (the operating system schedules it, a mutex that
is free is obtained, and a transfer ends). The last is an assumption about the
server: the client sets no timeout. Callers need not call. A process that is
killed for ever makes no progress, so `StartupCompletes` is about behaviours in
which starts are at some time no longer cut short from outside
(`<>[][~StartCutShort]_vars`): by a crash, a directory that cannot be made or
listed, or a file that cannot be removed. The last is what the code does not
survive: as long as such a file is there, `init` dies at every start, and the
property says nothing. What does count is a death after deleting a file, which
stops by itself because there is one file less each time, and the one of `LoadJar`,
which never stops (`finding_crash_loop`). `FairSpec` of
`JDBCScanner` gives weak fairness to `open` and `get_next`: the caller's loop
goes on until the end is reported. `FairPipelineSpec` gives it to the steps of a
driver that was started: it runs on a thread, and `getConnection` gives up by
itself when no connection comes back. Nothing obliges a driver to be started. `FairSpec` of `JNIScanner` gives it to the steps of a call
that has begun, a failing `getConnection` among them; nothing obliges an owner to
call again or to close. `FairSpec` of `HttpClient` gives it to the steps of
`execute_with_retry`: the callback returns some time, and so does `sleep`.

## 4. Proofs

All theorems hold for every value of the constants under the named assumptions
of the modules (types of the constants, `Stol` undoes `ToStr`, `NBlocks`,
`PoolSize`, `ChunkSize` positive, finitely many scanners).

* `DriverFileNameProofs`: parsing undoes generating when the driver name has an
  underscore (`ParseInvertsGenerate`); the file of any other driver is rejected
  (`OneTokenNameRejected`); locations are different for different name, checksum
  or time (`LocationInjective`).
* `JDBCDriverManagerProofs`: `TypeOK`, `RegistryConsistent`,
  `ServedMatchesRequest`, `DownloadExclusive`. None is inductive alone: that an
  answer matches its request rests on the entry a thread holds, which other
  threads may take out of the map. `IInv` adds that outside a running process no
  thread is in a call, that entries come from requests, that a thread in a call
  keeps an entry of its own name and checksum alive and holds its lock while it
  downloads, and that a stream's file exists.
* `JDBCDriverJarProofs`: `JarIntegrity` and `ServedJarStable`, assuming
  `OneVersion` (all queries agree on a driver's checksum) and `CloseWrites`
  (`fclose` succeeds). Both assumptions are needed, the first by
  `finding_shared_tmp`. `JInv` adds that each name has one entry, so that
  temporary files are not shared, that a stream writes its own file, that the
  file agrees with the buffer up to what is flushed, and that after a scan no
  old jar is left. `JarPresent` is about `ServedJarPresent`, which a failed download
  breaks (section 5): if in addition no `fopen`, write, transfer, rename or
  `fclose` fails (`DownloadsSucceed`; crashes and a missing directory remain), the
  answer is a whole jar that is there. `PresentInv` adds to `JInv` that the blocks
  received so far are good, so that the digest matches and the rename happens, and
  that the jar of an entry with `is_downloaded` is in the directory.
* `DriverCallProofs`: `LookupImplemented`, that `JDBCDriverManager` implements
  `DriverLookup`; the step simulation rests on `IInv`, on locations being
  injective, and on `AnswerInv`, that a call that has returned has an answer.
  `LocksHeld`: whoever waits for a `download_lock` waits for a thread that is
  downloading, so that nobody waits for a waiter. `CallsShorten` bounds the steps
  a call has left.
* `JDBCScannerProofs`: `TypeOK` (with it, that the row arrays are not overrun),
  `ConnectionsAccounted`, `PoolLimit`, and `ScanImplementsRowStream`: a scan
  implements `RowStream` for every result length and chunk size. From that follows
  `RowsFetched`, which rows have crossed JNI at any moment: the first ones of the
  result, and all of them once the end was reported. `ScansShorten` bounds the steps to the
  end by the rows left. The invariant says, for each place in the protocol,
  where the cursor is relative to the rows fetched and stored: on the last row
  fetched between calls, on the next row to store inside the loop, past the
  end only when everything has been read.
* `JNIScannerProofs`, for any number of threads: `JNITypeOK`;
  `ExceptionsContained`, where every step is shown to leave exceptions alone, to
  throw on the way to a check, or to check (`ExcCases`), and no scanner changes its
  environment once it has one; `PoolsWithinSize`; `CallsShorten`, which bounds the
  steps of a call. For scanners that are all used by one thread, as in `main`
  (`SingleThreaded`): `ScannerImplemented`, that `JNIScanner` implements
  `JDBCScanner`. The mapping needs `PlaceOK`: before `getSource` a scanner has no
  data source, before `getConnection` it has no connection, afterwards it does, and
  `hasNext` is set only at its check. One thread is needed where a check decides
  what happens next: at most one scanner is inside a call (`OneCall`), so by
  `ExceptionContained` a check finds its own exception or none (`NotForeign`). With
  two threads the refinement is false, as `Foreign` above says, and so is
  `ExceptionSeen` (`finding_shared_env`).
* `ScanPipelineProofs`: `PipelineTypeOK`; `ConnectionHasReader`; `QuietSurvive`, for
  every pool size and number of drivers. It needs that a quiet driver's scanner has
  no row to read and is never at a chunk, and that the connections out are those of
  started drivers, so that a driver waiting for one always finds the pool with room
  (`QuietPoolHasRoom`). That the drivers implement `JDBCScanner` is a lemma and holds
  by construction but for one thing: a driver that runs into a null pointer still
  has a live scanner, which `PInv` adds to the scanner's `IInv` by a relation between
  the stage of a driver, the place of its scanner and `_opened` (`StageOK`). From the
  lemma come the corollaries `PipelinePoolLimit` and `PipelineScansShorten`, which
  are theorems of `JDBCScannerProofs` for the scanners in the pipeline.
* `HttpClientProofs`: `TypeOK`, `RequestFresh`, `HeadersAlive`, `NothingLeaked`,
  `RetryHonest`. `HeaderInv` adds that the list a handle points to is always
  `_header_list` and that its lines are of this use, `RetryInv` that the loop
  variable counts the failures and that nothing has succeeded while it runs.

`IInv`, `JInv` and `PresentInv` were also checked by TLC on the instances of
`registry` and `integrity`, the last without the faults of a download.

Only model-checked, not proved: `StartupCompletes`, `CallReturns`, `ScanEnds`,
`QuietDriversEnd`, `CallEnds` and `RetryReturns`, which are liveness under fairness
and out of the prover's reach. For three of them the part that needs no fairness
is proved: `CallShortens`, `ScanShortens` and `JNICallShortens` give a number that
bounds what is left to do, that the steps of the call or scan lower, and that
nobody else raises. What remains to TLC is that a step is always possible and
that fairness makes it happen. `QuietDriversEnd` has `QuietDriversSurvive` for its
half without fairness; `StartupCompletes` has none, for a start-up goes through
restarts.

## 5. Findings

* `finding_shared_tmp`: with no failure at all, version 1 replaced by version 2
  and asked for again while still downloading gives two downloads writing one
  temporary file; a truncated jar is served.
* `finding_restart_deletes`: the parser wants an underscore in the driver name;
  `mssql-jdbc` has none, so a restart deletes the jar, the only one.
* `finding_crash_loop`: with an underscore in the name the jar is accepted, and
  `init` dies at the null pointer of lines 101 and 102, at every start.
* `finding_end_of_result`: `has_next_chunk` is to "return false if eos is reached
  or error occurred". `JDBCDataSource::get_next` returns OK at the end, the loop
  of `_read_chunk` goes on while it sees OK, and what it sees is not the member
  `has_next_chunk` reads. The scan of an empty table never returns.
* `finding_shared_env`: `java_udf.h` calls the JVM helper thread local. Its `_env`
  is, but every thread is given the `JNIEnv` of the thread that made the virtual
  machine. The check of one thread clears the exception of another before that one
  looks for it.
* `finding_status_copy`: the comment in `status.h` forbids copying a `Status`; the
  lines below it default the copies, `StatusOr` and `set_process_status` use them,
  and a message is deleted twice.

Seen while modelling, without a run of their own: a failed download is marked
available and its location returned with OK, nothing is there, and nothing
downloads again (`ServedJarPresent` is false with any failing download; `JarPresent`
is what remains); the header of `execute_with_retry` says that it fails after more
than `retry_times` failures, while the loop fails after exactly `retry_times`, and
returns OK without a try if `retry_times` is zero or less (`RetryHonest` states what
the loop does); a file in the driver directory that cannot be removed ends every
start; `fclose` comes after the
rename and its result is unused, so a failing last write leaves a truncated jar
under its final name (the flush fault; the theorem assumes it away); the jar of
a replaced version is never removed (a todo in the destructor); `hasNext`
throwing is reported as the end of the result.

## 6. Not modelled yet, and the plan

1. The driver manager and the scanners together: which jar a scanner runs with
   after a version is replaced, through the context class loader that `open` sets and
   the data source that outlives it.
2. JNI references: global and local ones are never freed (`JavaGlobalRef::clear` is
   a todo), so a count of them only grows.
3. `RuntimeState`: the first error reported is the one that stays, under any
   number of reporters; stated for a `Status` that is moved, so that it does not
   depend on the copies.
4. Proofs: the part of `StartupCompletes` that needs no fairness (an `init` that
   dies after deleting a file leaves fewer files to the next one, and only
   `LoadJar` can repeat).

Where a new question fits the instance of an existing run it is added there.

Left out for good: the descriptor table beyond the outcome of a lookup (`create`
makes a descriptor and drops it, no code ever fills the maps, so every lookup fails
and there is no state to check), the type descriptors, `Buffer` and the operator
interface, which hold data or have no caller; googletest (vendored), libcurl, HikariCP, the JVM and the
database drivers (external, modelled by how the code uses them), header and
status tables of the HTTP code and date formatting (data without state).
