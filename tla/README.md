# TLA+ specifications of hhvm-pgsql

The extension gives PHP scripts that run in HHVM access to PostgreSQL: the
procedural `pg_*` functions (`src/pgsql.cpp`) and a PDO driver
(`src/pdo_pgsql*.cpp`), both on top of a thin C++ wrapper of libpq
(`src/pq.h`). This directory holds TLA+ modules translated from that code, the
TLC configurations that check them, and theorems about them that TLAPS checks.

HHVM runs one request per thread, many threads per process. Almost all state of
the extension belongs to one request. What requests share is the pool of
persistent connections, the name counters of PDO statements, and whatever state
a persistent connection keeps on the server.

## 1. Inventory

| Component | State | Operations | Shared with |
|---|---|---|---|
| `PGSQLConnectionPool` (`pgsql.cpp` 63-104, 430-578) | `m_lock`, queue `m_availableConnections`, vector `m_connections`, five counters, two strings | `GetConnection`, `Release`, `SweepConnection`, `CloseFreeConnections`, `CloseAllConnections`, unlocked accessors | all threads |
| `PGSQLConnectionPoolContainer` (42-59, 581-625) | `m_lock`, map from connection string to pool | `GetPool`, `GetPools`, destructor | all threads |
| `pg_connection_pool_stat`, `pg_connection_pool_sweep_free` (746-789) | none | read or sweep every pool | all threads |
| `PGSQL`, `PGSQLResult` resources (108-425) | pointer to connection and pool, reference counts, result, caches | constructors, `ReleaseConnection`, `close`, `sweep` | one request |
| query functions (1078-1299) | none; libpq's per-connection state | `pg_query`..., `pg_send_query`..., `pg_get_result`, `pg_cancel_query`, `pg_connection_busy` | connection, later borrowers |
| result set functions (1303-1624) | `m_current_row`, `m_num_rows`, `m_num_fields` | `pg_fetch_*`, `pg_field_*`, `pg_result_seek`, `pg_num_rows` | one request |
| `PDOPgSqlConnection` | `m_server`, `pgoid`, `m_lastExec`, `m_emulate_prepare` | `create`, `closer`, `doer`, `begin`, `commit`, `rollback`, `quoter`, attributes | one request |
| `PDOPgSqlStatement` | name, cursor name, `m_isPrepared`, `m_current_row`, result; two static counters | `create`, `executer`, `fetcher`, `describer`, `getColumn`, `paramHook`, `sweep` | counters: all threads |
| data source parsing and quoting (`pdo_pgsql_connection.cpp` 12-96, 122-144) | none | pure | - |
| escaping and interrogation functions, `CStringArray`, registration, `ext_pgsql.php`, `pgsql.hhi` | none worth a model | - | - |

Interactions. `pg_pconnect` asks the container for the pool of its connection
string (under the container's lock) and the pool for a connection (under the
pool's lock, after the first was released). The `PGSQL` resource points to the
connection until `ReleaseConnection` gives it back: from `pg_close`, from the
destructor, or from the sweep HHVM makes of all resources at the end of a
request. A `PGSQLResult` keeps its `PGSQL` alive. The query functions drive libpq
and the server through the connection. `pg_connection_pool_sweep_free` visits a
copy of the container's map and closes what is free in each pool. At process exit
the container's destructor finishes everything, what is lent too, without its lock.

What is hard, and what has to hold in spite of it:

- *Pool*: borrowers, releases, sweeps and process exit interleave; connections
  break while lent; opening fails by an exception; the network is waited for with
  the lock held. A connection has one borrower at most, is never queued twice or
  broken, is never closed under its borrower, is never lost; the statistics add up.
- *Statistics*: seven unlocked reads. What can a reader still rely on?
- *Container*: check-then-insert of a pool, a null pointer in the map meanwhile,
  sweeps over a copy, a destructor that waits for nobody. One pool per string, the
  right server for each script, complete sweeps, and no pool lends or queues what
  it has finished.
- *Query functions*: results left over from earlier queries and earlier borrowers,
  cancel requests that come too late, COPY, blocking calls. A script reads the
  results of its own last query; draining and polling loops end.
- *Resources*: release exactly once whatever the order of `pg_close`, destruction
  and sweep; no use of a null connection; freed results.
- *Result sets*: unnumbered fetches give each row once and in order whatever is
  called in between; an answer is about the row and field asked for, if they exist;
  nothing is read of a freed result, although the cached counts survive it.
- *PDO*: what a commit reports is durable; PDO and the server agree on whether a
  transaction is open; what a statement remembers (`m_isPrepared`) agrees with
  a session that transactions and failures change behind its back; statement names,
  given from a counter all threads share, belong to one statement; the retry of
  prepare ends.
- *Data source*: each option gets the value given under its name, and libpq reads
  the same value back from the connection string.

The full list, with the lines, is under `hazards` in `PROJECT.json`.

## 2. Modules

| Module | Models | Built on |
|---|---|---|
| `ConnectionLoan` | abstract: what a pool promises its borrowers | - |
| `PGSQLConnectionPool` | one pool and its threads | implements `ConnectionLoan` |
| `PGSQLConnectionPoolProofs` | theorems about it | the above, TLAPS |
| `PoolStat` | `pg_connection_pool_stat` over one pool | EXTENDS `PGSQLConnectionPool` |
| `PoolStatProofs` | theorems about the statistics, balance and report | EXTENDS `PGSQLConnectionPoolProofs` too |
| `PGSQLConnectionPoolContainer` | the container, many pools, their clients | implements `ConnectionLoan` once per string |
| `PGSQLConnectionPoolContainerProofs` | theorems about it | the above, TLAPS |
| `AsyncQuery` | query functions over one connection, libpq and server | - |
| `AsyncQueryProofs` | theorems about it | the above, TLAPS |
| `PGSQLResource` | links and results of the requests, their release | - |
| `PGSQLResourceProofs` | theorems about it | the above, TLAPS |
| `RowCursor` | abstract: what fetching row by row promises a script | - |
| `ResultSet` | a result and the functions that read it | implements `RowCursor` |
| `ResultSetProofs` | theorems about it | the above, TLAPS |
| `PDOConnection` | transaction calls, `exec()` and the server session of one PDO connection | - |
| `PDOStatement` | the statements of that connection | EXTENDS `PDOConnection` |
| `PDOStatementProofs` | theorems about connection and statements | the above, TLAPS |
| `DataSource` | data source parsing and connection string | - |
| `DataSourceProofs` | theorems about it | the above, TLAPS |
| `MC*` | constants and symmetry for TLC | the module named |

The two halves of the extension, `pg_*` and PDO, share nothing but `pq.h`, so no
module composes them.

### PGSQLConnectionPool

The C++ members keep their names. `counter` is the record of the five statistics.
`status[c]` is what `PQ::Connection` says of connection `c`: `new` (not allocated),
`OK`, `BAD`, or `finished` (`m_conn` is null, `status()` answers `CONNECTION_BAD`).
`held[t]` is the set of connections that the `PGSQL` resources of thread `t` point to;
`inHand[t]` is the local variable `conn` of a call.

Each method is several actions: the call (the thread starts to wait), the entry
(the lock is taken and the counter moves), the turns of its loop, and what
follows. The method still holds the lock until it returns, so threads do not
interleave inside the pool; the steps are separate because `PoolStat` reads in
between and because a connection is opened with the lock held. `Return` is the
destructor of the scope guard, hence also what an exception of `raise_error` does.
`Release` and the following `m_conn = nullptr` of `ReleaseConnection` end in one
step (`FileReleased`): the connection can be lent again when the lock is free, and
no code of the releasing thread looks at `m_conn` before it is null.

`Status` has no other value than `PQstatus` gives after the blocking
`PQconnectdb` and `PQreset` return. A connection changes status only by an
operation of whoever holds it (`BreakConnection`, `ResetConnection`, `Finish`):
libpq looks at the socket in no other case. An open that fails allocates a connection
and finishes it before `raise_error` (`ConnectFailed`); it is never in `m_connections`.
`Conns` are the `PQ::Connection` objects ever allocated; the code never deletes one.

### PoolStat

Adds a reader with the seven reads in the order of the code, each a step of its
own between any two steps of the pool. A `long` is read whole on the platforms
HHVM supports; the size of the vector and of the queue are read as one value. The
string that is copied is not in the model (see `hazards`).

### PGSQLConnectionPoolContainer

A method of a pool is one step here: `PGSQLConnectionPool` has the detail. The
queue is a set (`free`), broken connections appear as the second alternative of
`Release`, and opening fails or not (a connection that failed to open is seen by
nobody, so `OpenFails` changes nothing here). `held` remembers, as a ghost, the string the
script asked for; `due` is a ghost too: what a running sweep found free. `m_pools`
maps to `NoPool` (no entry), `NullPool` (the null pointer `operator[]` inserts) or
a pool.

`DestroyContainer` may come at any time, on a thread that serves no request, and
takes no lock, as in the code. `CloseAll` is `CloseAllConnections` of one pool: it
finishes what waits and what is lent, under its borrower. The requests that are
running then go on to look up, open and release; a `Release` queues a connection only
if the destructor has not finished it. A change of the map during the walk is
undefined behaviour; here the walk leaves out what comes meanwhile (section 6).

### AsyncQuery

One persistent connection and the successive requests that borrow it. The three
parts are the script (`pc` is the call it is in), libpq (`async` is its
`asyncStatus`; `buffer` what it has read) and the server (`server`, `left`), with
`socket` in between. Every message carries the number of its query. The server
and libpq parts are external: they are what the code in `src/` relies on.
`PQgetResult` blocks when nothing has arrived, which is a disabled action. `owner`
is a ghost: who sent each query. A script asks `pg_connection_busy` once (`AskBusy`) or
in a loop until it says FALSE (`CallPoll`, `Poll`).

### PGSQLResource

What two requests do with `PGSQL` objects (`Links`) and `PGSQLResult` objects
(`Results`), from creation to the sweep. `script` is what variables of a script
still refer to, all of them together as one reference; `refCount` counts them and
what results add (`ReferencesOfResult`). `Unreference` runs the destructor with the
last reference, in the same step, as HHVM does. `EndRequest` starts the sweep, which
takes the resources one by one in any order while other requests go on; HHVM frees
the memory without destructors or counts. A link that gave back a pooled
connection has `NoConn` (a null pointer); one that finished its own keeps pointing
to it, as in the code. The pool is reduced to `free`, which contains what waits.
`notice[c]` is the argument of the notice processor (with the default
`IgnoreNotice`). `NullDereference` ends the model: the process is gone.

### ResultSet

One `PGSQLResult`, of any size within the bounds, and every function that reads
rows or fields of it, each one action. `Next` calls them with row and field numbers
from `RowNumbers`, with names and with null. `ToInt32` is the conversion from 64 bits
to an `int` of `IntBits` bits: three bits in the run, so that numbers that wrap lie
close by. `pg_fetch_array` cuts its row number, `pg_result_seek` compares the offset
first; each action does what its function does. A count is cached when it is first
asked for, in the order of the code's tests. `answer` is what the last call was asked
and what it gave: rows, a column, and whether these were data or the NULLs libpq
gives for what does not exist. The functions that look up the name of a table or
type ask the server; the answer of that query is left open (`FieldType`), its effect
on the connection is not in the model.

`RowCursor` is what a script that fetches without row numbers relies on. Its rows are
the rows the result still counts: the caches survive `pg_free_result`, so after it
either all rows remain to be walked (as NULLs) or none.

### PDOConnection and PDOStatement

`session` is the server's side: transaction status, prepared statements, cursors
(those in `held` have outlived their transaction), and whether the transaction has
written something. Commands are atomic: `Exec` gives no result, an error or success,
and what the session is afterwards; the connection may be lost at each. A libpq
connection that is found lost stays so, because nothing in the driver resets it.
`inTxn` is HHVM's own belief, from what `begin`, `commit` and `rollback` return.

A statement is `plain` (emulated), `named` (prepared on the server) or `cursor`
(scrollable). Which of the first two it is depends on options and on
`m_emulate_prepare`, which no constructor sets; the model takes either. `executer` is
one action per command it sends, with the retry of prepare as a loop
(`Prepare`, `Deallocate`); the other calls send one command at most. `rowCount` is the
number of rows of a query or of those that a command has affected, and `fetch` counts
up to either. `createFails` is a query that `pdo_parse_params` rejects. A script calls
PDO from one thread, so calls do not interleave on a connection; what other threads
do is in `create`, which folds in the unlocked `++` of the static counters: any
number of names may have been given to other connections, and a thread that stores
an old value sets the counter back (`wentBack`).

The ghosts say what the script could know: `told` (a write was reported as done),
`failed` (a call reported a failure), `unnoticed` (a command failed whose result no
call looks at: those of the destructor and of `getColumnMeta`, but not of the `CLOSE` in
`executer`, because the `DECLARE` that follows it reports the aborted transaction).

### DataSource

The parser's loop is one action per option; the assembly of the connection string
is another. A text is a sequence of characters. `pairs` is what the author of the
data source meant, `data_source` the text written from it in the documented form,
and `conninfo_parse` how libpq reads the result, one character after the other
(`ReadNext`): a function from the length of a prefix to what has been read of it. The
two loops over characters are the search operators of the community modules. Of white
space there is only the space; `DataSourceAssumption` says what the documented form
asks of names and values (no `=` in a name, no space or semicolon in a value), and
that no two options share a name. Values keep the rest: `=`, quotes and backslashes.

## 3. Runs

| Run | Instance | Shows |
|---|---|---|
| `pool_safety` | 3 threads, 4 connections, 4 requests | `ExclusiveLoan`, `QueuedAreOK`, `LentIsOpen`, `NothingOrphaned`, `InUseAccounted`, `TotalAccounted`; the pool implements `ConnectionLoan` |
| `pool_stat` | 2 threads, 2 connections, 2 requests, with fairness | `ReportOrdered`, `LockFreed` |
| `container` | 2 threads, 2 strings, 3 pools, 4 connections | `OnePoolPerString`, `RightServer`, `NoNullSwept`, `SweptAllFree`; one loan per connection string, up to and after the destructor |
| `async_query` | 2 borrowers, 3 queries, 2 results each, with COPY and fairness | `ResultsOfLastSend`, `DrainEnds`, `PollEnds` |
| `async_copy` | the same | expected violation: the drain of `pg_send_query` never ends |
| `resource_safety` | 2 requests, 3 links, 1 result, 3 connections | `ReleasedOnce`, `NothingOutlivesRequest`, `NoticeToHolder`, `ResultHasLink`, `DroppedIsReleased` |
| `resource_closed` | 1 request, 2 links | expected violation: a call on a closed persistent link |
| `result_set` | results of up to 2 rows and 2 fields, 3-bit `int`, numbers -2 to 9 | `CellAsAsked`, `OnlyWhatExists`; the result implements `RowCursor` |
| `data_source` | 3 options (two that begin alike), 2 other names, up to 2 pairs, 6 values | `ParsesDocumentedForm`, `ConninfoReadsBack` |
| `pdo` | 2 statements, one that writes, 2 names, 2 rows, with fairness | `TransactionKnown`, `CommitKeeps`, `PreparedIsThere`, `OwnQuery`, `NothingLeftBehind`, `RetryEnds` |
| `pdo_begin` | 2 statements | expected violation: begin reports a transaction that has not begun |
| `pdo_sweep` | 2 statements | expected violation: a commit reports writes that a destructor has undone |

Bounds. In the pool three threads give a holder, a waiter and a sweeper at the
same time; four connections and four requests let two be lent while one is queued
and one has been discarded and replaced. `MaxRequests` bounds the calls of
`GetConnection` by a guard, so that no behaviour is cut off in the middle of a call.
Three pools for two strings leave one to be created by mistake. Three queries
allow one left over, one that drains it, and one after it. Three links let one
request hold two, one of them with a result, while another borrows what the first
gives back. Two rows and fields give a first, a last and one behind the last; the
numbers from -2 to 9 contain those that an `int` of three bits holds, those that
wrap into the bounds and those that wrap below zero. Two statements of one
connection can meet over a name, and one reads while the other writes; two names
let a counter go on and go back. Two pairs are enough for a repeated option, an
unknown name before a known one, and each separator.

`CHECK_DEADLOCK FALSE` stands in the pool, statistics, container and resource runs
because the process may exit, requests end, and the bounded supply of requests and
connections may run out, and in the data source run because parsing ends.

Expected violations. Each is listed under `findings` in `PROJECT.json` with the
sentence of the repository that it contradicts.

What the passing properties leave out, and a reader should know:

- `total_connections` is no count of the open connections, as `src/README.md:43` has
  it: `CloseFreeConnections` leaves what it closes in `m_connections` and counts no
  sweep, so they are counted for ever. `TotalAccounted` says that these are the only
  closed connections counted: what is in `m_connections` and open is queued or lent,
  and each closed connection outside was counted once, under `errors` or `sweeped`.
  The test against a maximum is the wrong way round (`RaisesPoolFull`), but
  every pool is made without a maximum.
- A borrower that calls `pg_get_result` before it has sent anything can get results of
  the previous borrower; `ResultsOfLastSend` speaks of a borrower that has sent.
- A link that has made a result is not released before the sweep, even when script
  and result have let go of it; `DroppedIsReleased` excepts it.
- `pg_field_size` answers 0 for the number behind the last field, where the test
  should have refused it; `OnlyWhatExists` says that it alone does so, and that this
  answer is no size of a field.
- At process exit what is lent is finished under its borrower; `LentIsOpen` speaks of
  the time before.
- `ResultsOfLastSend` is about pending results; a transaction or prepared statements
  that a borrower leaves on a connection are met by the next one.
- A row number beyond the width of an `int` is cut and may name another row;
  `CellAsAsked` speaks of numbers that fit.
- After a failed execution `fetch` goes on over the number of rows of the execution
  before, as rows of NULLs: `row_count` is only set by one that succeeds.
- When a race of threads gives one name twice on a connection, a statement may run
  the query of another; `OwnQuery` and `PreparedIsThere` except it (`wentBack`).
- A name whose `DEALLOCATE` or `CLOSE` fails, as it does in an aborted transaction,
  stays in the session; `NothingLeftBehind` excepts it (`leftBehind`).

Fairness. `LockFreed` assumes that a thread inside a locked method goes on
(`WF_vars(LockedStep(t))`): it runs straight C++ code and waits for `PQconnectdb` only,
which returns with or without a connection. Nothing is assumed of who gets the
lock next: HHVM's `Mutex` promises no order. `DrainEnds` assumes that
the server goes on with a query it has started, and that a call goes on when
libpq has something to give. It makes an exception for a COPY that the script has
started and cannot finish; `async_copy` shows why. `PollEnds` assumes the same, and
that a script that polls in a loop goes on polling. `RetryEnds` assumes that an execution
that has begun goes on (`WF_vars(CallStep)`): each command gets its answer or the
connection is found to be lost. Nothing else is assumed of scripts.

## 4. Proofs

Every invariant that a run checks is proved, and so are the refinements and the
action properties: for every number of threads, connections, strings, pools,
requests, statements and names, for results of every size and an `int` of every width,
and for data sources of every length, with any options and values.

| Module | Theorems |
|---|---|
| `PGSQLConnectionPoolProofs` | `TypeCorrect`, `LoansExclusive`, `QueueOK`, `LoansOpen`, `NoOrphans`; `LoanRefinement` (the pool implements `ConnectionLoan`) |
| `PoolStatProofs` | `TotalBalanced`, `LentBalanced` (for every maximum too); `ReportsOrdered` |
| `PGSQLConnectionPoolContainerProofs` | `ContainerTypes`, `PoolUnique`, `ServerRight`, `SweepSafe`; `SweepComplete`; `LoansRefined` (one `ConnectionLoan` per string) |
| `PGSQLResourceProofs` | `ResourceTypes`, `NeverReleasedTwice`, `NoConnectionLeaks`, `NoticeReachesHolder`, `LinkOutlivesResult`, `DropReleases` |
| `ResultSetProofs` | `ResultTypes`, `CellIsAsked`, `OnlyExisting`; `CursorKept` (the result implements `RowCursor`) |
| `PDOStatementProofs` | `StatementTypes`, `TransactionsKnown`, `PreparedAgrees`, `RowsAreOwn`, `NothingLeft`; `CommitKept` |
| `AsyncQueryProofs` | `AsyncTypes`, `LastSendAnswered` |
| `DataSourceProofs` | `PairByPair` (the invariant), `DocumentedFormParsed`, `ConninfoReadBack`; `ReadOptions` (about `conninfo_parse` alone) |

Assumptions. `PoolAssumption`, `ContainerAssumption`, `ResourceAssumption`,
`ConnectionAssumption` and `AsyncAssumption` say that the distinguished values (no
thread, no connection, a null pool...) are none of the objects, that links are not
results, and that bounds are numbers. `AsyncAssumption` and `StatementAssumption`
let a query have one result and one row. `ResultAssumption` says that rows and
fields can be counted with an `int`: libpq counts them with one.
`DataSourceAssumption` is the documented form: it is what `Pair` and `Text` mean by a
name and a value. Sets of threads,
connections or requests need not be finite; where a proof counts, it shows that
what it counts is.

Each module has an inductive invariant (`IInv`, and `AInv`, `SInv`, `WInv` where a
second one rests on it), one lemma per action or per group of like actions, a
lemma that puts them together, and the theorems, which are short. TLC checks the
invariants on the instances of the runs. None of the properties below is inductive
as it stands; what each invariant adds is what the code relies on without saying so.

*Pool.* That a connection put into the queue is not there yet follows from its
being held by the releasing thread; that it is not held by another follows from
where that thread is and from who has the lock. `IInv` says that the thread at
a place inside a method is the holder of the lock, that a connection in the hands
of a releasing thread is one it holds and in the hands of an opening thread one
nobody else knows, that only the exiting process closes all, after it has drained
the queue, and that what is queued, held or in the vector is allocated. The refinement
uses `IInv` for the same reason: `GetConnection` lends a connection that is free in
the abstract sense because the queue holds no connection twice.

*Statistics.* `TotalAccounted` and `InUseAccounted` speak of the moments when nobody
has the lock; inside a call the counters have moved and the sets not yet. `AInv`
states both balances at every place of a call: `GoneBalance` counts the closed
connections outside of `m_connections` against errors and sweeps, and `LentBalance`
the lent ones, with a difference of one that the place of the lock's holder
determines (`Lending`, `Filing`). `KnownConnections` says that what is swept was in
`m_connections` and what is registered was not, so that each step changes the
cardinality by what it changes the counter. The report of `pg_connection_pool_stat`
needs more, because these balances end when the process exits and `m_connections`
is emptied, but resources are released after that and count sweeps. `SweepBound` counts what can
still be swept, queued or lent, against what was opened, and sweeps against
releases; `RequestBound` counts what was opened against requests, with a difference of
one while a request has not opened its connection. The reader's part is that the
sweeps are read first, what was opened before what was requested, and that counters
only grow.

*Container.* `IInv` says that a thread between lookup and creation is the holder of
the lock and that only then the map holds a null pointer, that the pool a thread
has in hand was made for the string it asked for, and that a connection in a
pool's queue was opened with that pool's string. `WInv` says that an opened connection
is in one queue, in one resource, or closed, and that nothing queued is closed
(`PlaceOK`, `NoneLost`); that only the destructor closes what is lent, after which
`ended` holds (`ExitOK`); and that a sweep finds what it has to close (`DueOK`) closed
or in a pool it has yet to see. From both follow the sweep's property and the loan of
each string: the queues of all pools hold a connection once, so that what one pool
lends is free nowhere else, and what the destructor finished comes back to no queue.

*Resources.* `DroppedIsReleased` and `ResultHasLink` rest on the reference count. `CountOK`
says that `refCount` of a link is at least one for its variables, one for each result
made over it, and one more for each result in use: the constructor of
`PGSQLResult` takes two references, the destructor gives back one. So the count
cannot reach zero while a result is in use, and a link without results is dropped
when its variables go (`DropOK`). `ConnectionOK` carries the rest: a held connection was
opened, by the link the notice processor points to.

*Result sets.* `Proper` says what a call may answer, given its arguments; each
function gives a proper answer and reads no more than the counts and the cursor
(`Reads`), and these two keep `IInv`. That `FreedOK` ties the ghost to the null
`PGresult` makes `OnlyWhatExists` hold although the cached counts survive
`pg_free_result`. For the refinement each call is a step of the abstract cursor: it gives,
seeks, or leaves the cursor alone.

*PDO.* `TransactionOK` relates PDO's belief, the server's transaction and what the script
was told: an aborted transaction is one whose failure was reported, could not be
noticed, or is about to be met again by `executer` (`Retrying`); what was reported as
written is pending. `CommitKept` follows at the step of the commit. `StatementOK` says
that names are given once while no counter has gone back (`NamesOK`), that the place of
`executer` fits the kind of the statement it runs (`RunningOK`), and that a session
knows each name as the statement that has it, which knows that it is prepared, or as
one whose destructor's command failed (`SessionOK`).

*Query functions.* Libpq's buffer and the socket together (`Arrived`) hold messages of
the last query only, with "ready" at the end once the server is done, and libpq is idle
only when nothing is on its way (`AnswersOK`). So a send, which drains until libpq
is idle, starts with an empty line, whoever borrowed the connection before.

*Data source.* `IInv` says that the loop is always at the beginning of a pair, that each
option has the last value given by the pairs before it, and that their known names
have been counted. What makes it inductive is `Layout`: behind the first `m` pairs lie the
name of the next, `=`, its value and its separator, in this order, so that the first `=`
ends the name (a name has none), the first space or semicolon ends the value, and
the first character that is no space begins the next pair (`PairFound`). For
the connection string, `ReadOption` says that libpq, between two options, reads the
next one's value back: doubling the backslashes and then escaping the quotes
gives the image, character by character, that `ReadNext` undoes (`ReadValue`).

`FlattenSeq` and `conninfo_parse` are recursive functions, hence CHOOSEn. The
lemmas `FlattenIs` and `ReadingIs` show that a function with their equations exists and that
no two differ, and everything else rests on `FlattenAppend` and `ReadAppend`, which say
what one element more does. The inductions are over sets of numbers or sequences
(`Induction`, `SeqInduction`), derived from the well-foundedness of `<` on the naturals:
a statement about sets needs no operator as a parameter.

Only model-checked:

- Liveness (`LockFreed`, `DrainEnds`, `PollEnds`, `RetryEnds`): out of the prover's reach.
- The four expected violations: a counterexample needs no proof.

## 5. Plan

Done: every component that keeps state has its module, and every safety property its
proof. What is left is smaller:

1. A composition of `ResultSet` with `AsyncQuery`, for the queries that
   `pg_field_type` and `pg_field_table` send on the connection of their result.
2. Commands that a script sends as the text of a query and that end PDO's transaction.
3. Shorter proofs where lemmas about like actions can be joined.

## 6. Not modelled

- Escaping and quoting (`pg_escape_*`, `PDOPgSqlConnection::quoter`): libpq does it.
- Interrogation functions and PDO attributes: copies of fields.
- `describer`, `getColumn`, `paramHook`, `CStringArray`: data conversion.
  `ParametersMissing` stands for what `paramHook` has not bound.
- BEGIN, COMMIT or ROLLBACK that a script sends as the text of a query.
- The query `pg_field_type` and `pg_field_table` send on the connection of their result.
- Between the destructor of the container and a `GetPool` in progress, the race over the
  map: undefined behaviour while the process exits. Everything else the two do
  interleaves.
- `closer` of the PDO connection, which nothing in the repository calls.
- Registration, ini values, PHP stubs, build files. `AllowPersistent`,
  `MaxPersistent`, `MaxLinks` and `AutoResetPersistent` are read and never used.
