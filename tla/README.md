# OxiDB: TLA+ models of the client, the wire, the server and the programs that drive it

OxiDB is a document database server reached over TCP. This repository holds
the Python client library (`python/oxidb.py`) and the Python programs that
drive a running server: a demo that runs every operation once, an ACID
suite, integrity and concurrency tests, a collection lifecycle test, a
crash-recovery test, cluster tests and benchmarks. The
server's own source is not in the repository; what it promises is written
down in the design specification (`spec.md`). The models here put the two
together: the client and the programs are translated from their source, the
server from the specification, and TLC explores how they interleave.

## The system

| Part | Where | State | Operations |
|---|---|---|---|
| Client library | `python/oxidb.py` | one socket per `OxiDbClient`; what was sent and not yet answered | `__init__`, `close`, `_send_raw`, `_recv_raw`, `_request`, `_checked`, one method per command, `transaction()` |
| Wire | `oxidb.py` 42-43, 70-91 | two byte streams per connection; `buf` and `n` of the `_recv_exact` under way | frames `[length][JSON]`, read by `recv` in whatever pieces arrive; no request id: the n-th response answers the n-th request |
| Server: TXM, DIDX, LOG | `spec.md` 3, 4.1, 4.2, 4.4, 4.7, 5 | collections, documents with `_id` and `_version`, append-only log, one transaction per connection | collections, indexes, insert, find, update, delete, count, compact, begin, commit, rollback, disconnect |
| Server: blob store | `spec.md` 6 (names only) | buckets of objects | buckets, put, get, head, delete, list, search |
| Server process | `test_crash_recovery.py` | running or not; memory is lost with it, the log stays | start (with recovery), kill, graceful stop |
| Remote demo | `examples/python/remote_demo.py` | one connection, one thread | eleven sections of calls, cleanup before and after |
| OCC and integrity tests | `examples/python/test_occ_and_integrity.py` | counters under a lock, one connection per thread | conflict storm, transfers, data integrity, `$inc` counter |
| Crash recovery | `examples/python/test_crash_recovery.py` | server process, one data directory for three tests, set of confirmed writes | write, SIGKILL, restart, verify |
| ACID suite | `python/test_acid.py` | the clients a test has open, the list of failures | 23 tests run by `run_test`, each between two cleanups |
| Collection lifecycle | `examples/python/test_collection_lifecycle.py` | the event `stop`, counters under a lock, one client per thread | four tests: threads insert, read, drop and create while main stops, joins and cleans up |
| Cluster, encryption, vector, stress, benchmark | `examples/python/*`, `tests/cluster/*`, `benchmarks/*` | | not modelled, see below |

What makes it hard:

* A call is a send followed by a blocking receive, and a response carries
  nothing that ties it to its request. A socket timeout leaves the response
  in the stream; the programs catch the exception and keep the client.
* `transaction()` is three calls (`begin_tx`, `commit_tx`, `rollback_tx`),
  each of which can fail on its own, and the server ends a transaction by
  itself when validation fails or the connection closes.
* Commits are optimistic: a transaction reads a snapshot and its commit is
  refused when a document it wrote has changed since.
* A response arrives in pieces, and `_recv_exact` keeps what it has read
  in a local: a timeout between two pieces drops the first.
* The tests are concurrent programs: worker threads, counters under a lock,
  joins with a timeout, and a verification that reads the database when the
  workers are thought to be done.
* The server can be killed between the log append and the response.
* The programs are run again and again against the same server: each starts
  from whatever the one before left there.

## Modules

| Module | Models | From |
|---|---|---|
| `Wire` | connection state and the two streams of every connection; documents, queries, update documents, base64, responses | `oxidb.py`, `spec.md` 3 and 6 |
| `OxiDbClient` | the client library: the payload of every method, `_request`, `_checked`, the socket timeout, `transaction()` | `oxidb.py` |
| `FrameChannel` | one client's connection in whole frames, and the one step that ends it: a timeout that tears a response | `oxidb.py` |
| `Framing` | the bytes of the response stream: `_recv_raw`, `_recv_exact`, `recv`, the length prefix; implements `FrameChannel` | `oxidb.py` 70-91 |
| `Server` | collections, document index, index definitions, log, transactions, one handler per command | `spec.md` |
| `BlobStore` | buckets and objects, one handler per blob command | `spec.md` 6, the client's docstrings |
| `RemoteDemo` | `main` of the demo | `remote_demo.py` |
| `TestHarness` | what the tests share: main thread with setup and verification connections, workers, joins, counters | `test_occ_and_integrity.py` |
| `OccStorm`, `Counter`, `Transfer`, `DataIntegrity` | the four tests and their workers | `test_occ_and_integrity.py` |
| `ServerProcess` | the server as a process: `start`, `kill`, `stop_graceful`, recovery | `test_crash_recovery.py`, `spec.md` 4.7 |
| `CrashWrites` | `test_crash_during_writes` and `heavy_writer` | `test_crash_recovery.py` |
| `CrashRecovery` | `main` of the crash test: `test_committed_data_survives`, `test_uncommitted_lost`, then `CrashWrites` | `test_crash_recovery.py` |
| `DurableStore` | what a store promises about a crash; `CrashWrites` implements it | `spec.md` 8, property 5 |
| `AcidSuite` | `main`, `run_test`, `cleanup` and the 23 tests | `test_acid.py` |
| `Lifecycle` | `main`, the four tests and their seven thread functions | `test_collection_lifecycle.py` |
| `MC*` | the value sets of the runs | |

`OxiDbClient` and `Server` both extend `Wire` and share its variables
`conn`, `inbox` and `outbox`; `BlobStore` extends `Server`; a program's
module extends the client and the server and adds its program counters and
variables. `FrameChannel` extends the client; `Framing` stands alone and
instantiates `FrameChannel` under a refinement mapping.

### How a call is modelled

A method of the client is one Python call and three steps of the model, so
that other threads and the server run between them:

1. the method (`find(c, ...)`, `commit_tx(c)`, ...) is `_request` up to and
   including `_send_raw`: the payload is appended to `inbox[c]` and `ret[c]`
   becomes `Pending`;
2. `Serve(c)` is the server's connection handler: it takes the head of
   `inbox[c]`, changes the server state and appends the response to
   `outbox[c]` (or drops it when the client has closed);
3. `Return(c)` is `_recv_raw` and the rest of `_checked`: the head of
   `outbox[c]`, whichever request it answers, becomes `ret[c]`, as a value
   returned or an exception raised. `TimedOut(c)` is the other way out of
   `_recv_raw`: `socket.timeout` with the stream untouched.
   `ConnectionLost(c)` is `recv` on a stream the server's end has closed.

The caller's next action reads `ret[c]`. `transaction()` is the four
operators `tx_enter`, `tx_exit`, `tx_except` and `tx_raise`, one for each
place where the generator is entered or left. What a method reads of the
response after `_checked` (`result["count"]`, `result["content"]`) is
`Subscript`: a response of another shape raises `KeyError`.

### The bytes of a connection

The three steps above take a response for one thing. `Framing` has what is
under them. `stream` holds the bytes that have arrived, `flight` the rest of
the response that is arriving; `pc`, `n` and `buf` are `_recv_raw` and the
`_recv_exact` it is in. `recv` takes up to `n - len(buf)` bytes of what has
arrived and is the body of the loop of lines 80 to 84: with fewer than `n`
bytes it goes round, with the prefix complete `_recv_raw` unpacks it and
asks for the body (`Expects`), with the body complete `json.loads` and
`_checked` make the result (`Returns`, `loads`). `Timeout` and `Closed` are
the two exceptions of `recv`; both leave `_recv_exact` and take `buf` with
them. `Respond`, `Arrive` and `Hangup` are the server and the network: a
response is written as one frame and arrives in any pieces; a response
enters the model when its first byte arrives, which is the first the client
can know of it.

`FrameChannel` is the same connection in whole frames: the steps of
`OxiDbClient` (`Call`, `Return`, `TimedOut`, `ConnectionLost`), a server that
answers in order (`Answer`) and may end the stream (`Hangup`). It has one
step the programs' models do not have: `Tear`, a timeout after a part of a
response was read. From then on the connection is `torn` and `Lost` says
nothing of what its calls return. The refinement mapping
(`Chan == INSTANCE FrameChannel WITH ...`) reads `outbox` off the bytes:
the whole frames `Decode` finds in what `_recv_raw` has read, what has
arrived and what is in flight.

The radix is scaled: `Base = 4` and `Width = 2` stand for 256 and 4, so
that a length read from the middle of a frame (6 to 15 here, against
payloads of one and two bytes) is something a few responses can fill. The
proportion is the code's: four bytes that are not a prefix hold a byte of
JSON text and unpack to far more than a response is long.

### The server

`Server` handles one request in one step. The specification holds the commit
lock from validation to the index update, and runs non-transactional writes
under the same discipline, so nothing of another connection falls inside a
request. `tx[c]` is the transaction of connection `c`: the snapshot taken by
`begin_tx` and the write set. `Conflicts` is validation (step 2 of commit),
`Install` steps 4 to 6. `log[k]` is the sequence of committed batches of
collection `k`, `Replay` rebuilds the documents from it, and `Compact`
replaces it by one batch of the live records. `sidx[k]` is the set of index
definitions of `k`; of their contents only the Unique check at staging
(`Duplicate`, section 4.3) is modelled.

Data is abstracted to what the properties tell apart. A document has a field
that queries match (`key`), one that updates change (`val`) and, where a
program needs a second key, `seq`. A query is an equality match, a `$gte`
comparison, or `SomeOf`: a query with other operators, which selects any
subset. A find sorts its matches on a field the documents hold, stably from
`_id` order, and applies `skip` and `limit` after the sort (section 4.5); a
sort on a field the model leaves out answers any list. `$set` and `$inc`
change `val`; the other update operators change fields the model does not
hold. A collection is created by its first insert, the insert a transaction
only stages included (`Creates`): `Known(c, k)` lets that transaction read
it before the commit. A response's data
is a record whose fields give its shape (`[docs |-> <<...>>]` for a list,
`[count |-> n]`, `None` for JSON null). Base64 is a wrapper that
`b64decode` takes off again, so that encoded and raw bytes differ.

### The blob store

The specification names the blob commands and leaves their behaviour to the
blob store, which it does not describe. `BlobStore` takes what the client's
docstrings and the demo's order of calls say: objects live in buckets, a
put replaces the object of its key, get answers the content (base64) and
the metadata, head the metadata. Where nothing says what happens (a listing
or a delete of a bucket that does not exist), both an error and an empty
answer are possible. `search` answers any list of objects: indexing is
asynchronous (the demo sleeps a second before it searches).

### The remote demo

`pc = <<n, i>>` is the statement at line `n` of `main`, in its `i`-th
iteration, whose call is under way. `Proceed` takes the outcome of that
call and makes the next one; `Then` is Python's control flow: the next
statement, the next iteration, the body of a loop over a listing, the
`except` clause of a `try`, or out of `main` (`Raise`). The statements are
grouped as the script groups them (`Cleanup`, `SchemaSetup`, `DataInsert`,
..., `FinalCleanup`). The script only prints what it is answered, except
for the listings it loops over, the counts, `get_object` and the insert
that must be refused; printing and timing are left out.

`cls` is the class of `db`: the set of methods it has. `main` calls four
methods (`list_indexes`, `drop_index`, `create_text_index`, `text_search`)
that `OxiDbClient` of `python/oxidb.py`, the module the script imports, does
not define. They are server commands of section 6, and the model gives them
the payloads that section describes, so that the rest of the script can be
explored with a client that has them.

The lists of the script are cut to two entries each (users, articles, logs,
texts, queries), the twenty garbage documents to `Garbage = 2`.

### The tests

`pcMain` and `pc[w]` name the call whose outcome the main thread and worker
`w` wait for. Each action is one stretch of the program between two calls.
`TestHarness` has the parts the tests share; a test's module has its worker
and its verification. `JoinMayExpire` lets `t.join(timeout=...)` return
while the thread still runs.

### The ACID suite

`pc = <<t, j>>` is the `j`-th step of the `t`-th entry of `TESTS`. `Steps(t)`
is the cleanup of the test's first line, its body and the cleanup of its
last line, each statement named by its line; `Statement` makes the call of
the line, `Asserted` is the asserts on what it returned. `client()` takes a
connection from a pool (`Free`: one the server has no work left on), and
`obj[v]` is the client variable `v` names. `Pass` and `Fail` are the two
ways out of `run_test`: an exception leaves the test through the `__exit__`
of the `with` block it was raised in (`unwinding`), and `errors` gets the
name of the test. `Rollback` is the `except` of `transaction()`. The loops
of the stress tests are cut to `StressCount` documents in batches of
`BatchSize`; `test_full_text_search` may find nothing, because its sleep
may end before the object is indexed (`Flaky`).

### The lifecycle test

`stmt = <<t, j>>` is the `j`-th statement of main in test `t` (0 is the
probe); `Lines` lists the statements by line, `Does` makes the one reached.
`pc[w]` is where thread `w` is: before its `connect`, at the head of its
loop, in a call of the loop's body (`Body`, by line), or done. `Role[w]`
says which test starts `w` and which function it runs. Whether a thread is
started, and whether it sees `stop`, is read from how far main is
(`Reached`). `GoesOn`, `Excepts` and `Panics` are the three ways a call of a
thread ends: it returned (or raised what a `try ... pass` of its own
swallows), it raised an `OxiDbError` the loop counts, or it raised anything
else, which ends the thread. Of the counters only the ones a verdict reads
are kept (`Counts`); `Verdict(t)` is the value test `t` returns. When a
thread function or a test returns, its locals are reset: they no longer
exist, and keeping them would only multiply the states of the tests that
follow. A checksum is abstracted to what it guards: a document passes when
it is one that was inserted with a checksum, and in the stable collection
when it is a seeded one.

### The crash model

`ServerProcess` adds `proc`. `kill` ends the process: the document index,
the transactions and the id counter are gone, requests not yet handled are
gone, every connection is reset, and a response already written may or may
not reach its client. `log`, `colls` and `sidx` stay. `start` runs
`Recover`, which replays every log. A batch is appended to the log in the
step that handles the request, so the model has no torn batch: the kill
falls before a request or after it, and between a request and its response.

`CrashWrites` is shown to implement `DurableStore`: `items` is the set of
documents in the log, `acked` the set `confirmed` of the test
(`DS == INSTANCE DurableStore WITH ...`, `ImplementsDurableStore == DS!Spec`).

`CrashRecovery` is `main` of the crash test. Its first two tests are
single-threaded scripts: `stmt = <<t, j>>` is the statement under way,
`Lines` their statements by line, `Statement` the start, kill or stop of the
server or the call of a client (`client[n]` is the client made at line `n`).
`Step` takes the outcome of a statement and makes the next, `Returns` gives
the verdict (`Sound`), `Dies` is an exception no test catches. The third
test is `CrashWrites`, started (`Heavy`, `Wrote`) on the logs the first two
left in the data directory.

## Runs

| Run | Config | Instance | Distinct states | Result |
|---|---|---|---|---|
| `occ_storm` | `OccStorm.cfg` | 2 workers, 2 rounds, 1 timeout | 60,692 | holds |
| `occ_desync` | `OccDesync.cfg` | the same | | `FindReturnsList` violated |
| `occ_join` | `OccJoin.cfg` | 2 workers, 1 round, joins may expire | | `BalanceIsCommits` violated |
| `counter` | `Counter.cfg` | 3 workers, 2 rounds, 2 timeouts | 40,676 | holds |
| `transfer` | `Transfer.cfg` | 2 workers, 2 accounts, 1 round, 1 timeout, joins may expire | 449,705 | holds |
| `crash_recovery` | `CrashRecovery.cfg` | the three tests; 2 documents, 1 committed, 1 uncommitted; 2 writers, 3 inserts each, one kill per test; 1 timeout in the first two tests | 13,655 | holds |
| `data_integrity` | `DataIntegrity.cfg` | 2 workers, 2 documents, 1 update, 1 delete, 1 timeout | 762,908 | holds |
| `remote_demo` | `RemoteDemo.cfg` | both clients, 48 initial states, 1 timeout | 2,170 | holds |
| `demo_client` | `DemoClient.cfg` | the client of `oxidb.py`, no timeout | | `RunsToSummary` violated |
| `acid_suite` | `AcidSuite.cfg` | the 23 tests, loops of 2, 1 timeout in the tests of `SlowTests` | 116,162 | holds |
| `lifecycle` | `Lifecycle.cfg` | the probe and the 4 tests; 1 thread of each kind, 2 churn workers, loops of 2 rounds, 1 timeout in the probe or the last test | 80,251 | holds |
| `framing` | `Framing.cfg` | 1 connection, 4 calls, 2 payloads (1 and 2 bytes), bytes 0..3, prefix of 2 bytes, 2 timeouts before the connection is torn and any number after | 55,236 | holds |

### What holds

* `occ_storm`. `BalanceIsCommits` and `NoUnexpectedErrors` are the checks
  the test makes at its end (lines 173 and 184), for runs without a timeout.
  `EveryCommitAddsOne` is the server's side, no lost update, and holds
  whatever the clients do. `AbortedAfterClose`: a `begin_tx` whose response
  timed out leaves a transaction the client does not know of; the server
  aborts it when the connection ends. `Termination`: the test reaches its
  verdict.
* `counter`. `CounterIsExact` is the test's own check; `IncrementsConserved`
  says every `update_one` the server handled counts once, also one that the
  worker counted as an error after a timeout.
* `transfer`. `TotalPreserved` is the test's check of the sum, with a
  verification that may overlap the workers; `NoPartialTransfer` says that
  no committed state and no snapshot shows half a transfer, also under a
  desynchronised client.
* `crash_recovery`. `CommittedSurvive`: the first two tests return ok, that
  is, after SIGKILL and a restart the server counts and returns every
  document whose insert had returned, with its contents, and nothing else.
  `UncommittedLost`: the transaction open at the kill had seen its own
  inserts, and the restarted server has none of them. `NoConfirmedLost` is
  the check of the third test, on the logs the first two left;
  `ImplementsDurableStore` the refinement; `Termination` needs every writer
  to notice the kill.
* `acid_suite`. `SuitePasses`: without a timeout no assert fails and no call
  raises what its test does not expect, but for the full-text search.
  `FailuresStayLocal`: a timeout fails the test it happens in and no other,
  whatever that test left behind (collections, a request handled later, a
  client never closed and its open transaction). `SuiteCleansUp`: a test
  that passed has left no collection and no bucket.
* `lifecycle`. `ChurnSucceeds`: without a timeout every churn worker reads
  back exactly its own documents between its create and its drop, whatever
  the other workers create and drop meanwhile. `StableUntouched`: every
  find on the stable collection, by the reader threads and by the final
  check, returns the seeded documents and no other while the volatile
  collection is filled, dropped and re-created. `LeavesNothing`: without a
  timeout no test leaves a collection behind, because the threads are
  joined before the cleanup drops; an insert after the drop would create
  the collection again.
* `data_integrity`. `TestPasses`: without a timeout the test returns True.
  With one it does not (an error is counted), and the worker whose call
  timed out reports, publishes and closes while the server still has its
  request, which it handles while the verification reads. What holds then
  is said of the other workers: `TestPasses`, the documents of every worker
  that reported no error verify; `StoreSettled`, what the collection holds
  of such a worker does not change once the threads are joined;
  `LocalTracksStore`, its expectation and the collection differ by at most
  the document in flight.
* `framing`. `ImplementsFrameChannel`: while no timeout has struck inside a
  response, the bytes behave as the connection of whole frames on which
  every other run is checked; however the network cuts the responses,
  `_request` returns them one by one and in order, a timeout between two
  responses leaves the stream where it was, and `ConnectionError` comes
  after the last whole response. `ReturnsAreSent`: on a torn connection
  `_request` skips responses and fails (`ValueError` from `json.loads`,
  timeouts while it waits for bytes that were never announced), and what it
  does return is still a response the server wrote, each at most once and
  in order. It does return some: a call that times out on a misread length
  drops what it gathered, and when that leaves the stream at the start of
  a frame the next call returns that frame, the responses before it
  skipped. The other runs do not explore a torn connection: their timeout
  is the one that strikes between two responses.
* `remote_demo`. With a client that has the methods, and without a timeout:
  `DemoCompletes`, main reaches its summary from every state an earlier run
  may have left (any of the three collections, `users` with alice under a
  unique index, the bucket with or without an object);
  `DuplicateRejected`, line 143 "should have thrown" is not reached;
  `RollbackLeavesNothing`, line 285 finds nothing; `GetReturnsWhatWasPut`,
  `get_object` returns the bytes and metadata of this run's `put_object`,
  through four conversions; `LeavesNothingBehind`, the final cleanup leaves
  no collection, bucket or transaction. With a timeout:
  `TimeoutEndsMain`, main does not reach its summary. A timeout outside a
  `try` ends main at once; one that `except Exception` swallows (lines 72,
  79, 144) shifts every later response by one call, line 141 can then
  take the answer of line 134 and line 143 print "ERROR: should have
  thrown!", and main goes on until `count` at line 181 subscripts the response of `find_one`.

### What does not hold

* `occ_desync`: after a timeout the worker's next `begin_tx` returns the
  late response, and its `find` returns what `begin_tx` should have
  (`oxidb.py:90`).
  `heavy_writer` of the crash test keeps its client after a timeout in the
  same way (`test_crash_recovery.py:381`): it then confirms an insert on
  the response of the insert before it, a kill can lose the one it
  confirmed, and the test reports a loss the server did not cause. This is
  why run `crash_recovery` has no timeout in its third test.
* `occ_join`: a join that expires lets the verification read the balance
  while a worker is between its commit and its count
  (`test_occ_and_integrity.py:141`).
* `demo_client`: with the client the script imports, `main` ends at line 100
  with an `AttributeError`, after the schema setup and before any insert;
  the collections it created stay on the server (`remote_demo.py:100`).

### Bounds

Every bound is a constant of the config. Two workers and two rounds give a
commit, a conflict, a retry on the same connection and a second transaction
on a snapshot that holds the first. One timeout (`MaxTimeouts`) shifts a
connection's responses by one, which is all a desynchronisation needs; two
rounds are needed for a call to follow it. `MaxDocs` bounds the ids the
server hands out and is the number of inserts of the run. Balances start at
10 instead of 1000. Three accounts are needed for two transfers that
overlap in one account only; run `transfer` has two, so that one timeout
and an expiring join fit in one run, and gives up the pair of transfers that
share one account of three. In the demo, two entries of a list are enough
for a loop to iterate and for a listing to hold more than one object;
`MaxDocs = 13` is one document an earlier run left and the twelve the
script inserts.

In the ACID suite `CompactDocs = 2` and `StressCount = 2` are the fewest
documents with which a compaction keeps one of two and a loop iterates;
`BatchSize = 1` makes two batches of them and `FindLimit = 1` cuts a result
short. `MaxDocs = 35` is the number of inserts of the suite. `SlowTests`
names the tests in which the one timeout may fall: the test that leaves a
client and its transaction open when it fails, and the three stress tests,
which fill a collection and count it.

In the crash test `NumDocs = 2`, `NumCommitted = 1` and `NumUncommitted = 1`
stand for 500, 100 and 100: the checks read a count and the set of seqs,
which two documents tell apart from one. `MaxDocs = 9` is the inserts of
the three tests. The timeout may fall in the first two tests only.

In the lifecycle test one thread of each kind is enough for every race of
the test to occur (an insert, a find or a second churn worker against a
drop and a create); two rounds let a thread meet what its first round or
the other thread left. `SeedDocs = 2` and `ChurnDocs = 2` let a list be one
short. `SlowTests = {0, 4}`: a timeout in tests 1 to 3 leaves a request
that the server may handle at any later time, which multiplies the states
of every test after it; the run therefore does not reach a dropper that
dies of a timeout. With `SlowTests = {0, 1, 4}` the same properties hold
over 1,092,469 states, at four times the cost of the run. Joins wait (`JoinMayExpire = FALSE`); what an expiring
join does to a verification is run `occ_join`.

The initial state of a program is an empty server or one that holds what a
previous run left behind, so that both outcomes of the first cleanup occur.
What `occ_storm` and `counter` find left is the document of the test with
any value of `Vals`; `EveryCommitAddsOne` and `IncrementsConserved` are
about the document the setup of this run inserted (`Seeded`).
The ACID suite and the crash test start their own server on a fresh data
directory; the lifecycle test is modelled from a server that has none of its
collections.

In `framing`, four calls give a response that is read whole, one that is
torn, and two more to be misread after it; the two payloads differ in
length, so that a prefix read one byte late is another number. `MaxTimeouts`
bounds the timeouts of the connection while it is whole. On a torn
connection the bound does not count: a length that was never sent can ask
for more bytes than will ever come, and the timeout is then the only way
out of `recv`.

Runs `occ_storm`, `counter`, `transfer` and `crash_recovery` end
(`CHECK_DEADLOCK FALSE`): each program terminates, and that it does not
stop early is what `Termination` checks in `occ_storm` and
`crash_recovery`. Runs `data_integrity`, `remote_demo`, `acid_suite`,
`lifecycle` and `framing` check deadlock instead: their last step (`Exits`,
`Results`, `Finished`) repeats, so a state with no successor is a program
that waits for what cannot come. A liveness property over their state
graphs costs more than the bound of a run allows, and says no more: every
loop is bounded and every wait is for a response or for a thread that ends.

### Fairness

In `OccStorm`, `Counter`, `Transfer` and the crash test, `Spec` assumes weak
fairness of the main thread, of each worker, of `Receive(c)` and of
`Serve(c)`: a runnable Python thread is scheduled, a
blocked `recv` returns once the response has arrived, and the server gives
every connection a handler of its own (`spec.md` 5). No fairness is assumed
of a timeout by itself: `TimedOut` is one way `Receive` may happen. When
nothing else can happen to a blocked call and a timeout is left, the
timeout fires, as the socket's does.

The runs that check deadlock in place of `Termination` check safety only,
and their `Spec` assumes no fairness.

Time is abstracted: a socket timeout may fire whenever the response has not
arrived, and a join may expire whenever a worker still runs.

## Not modelled

* The bytes of a request: `sendall` returns when all is sent, and the
  server's reader is not in the repository. The programs on a torn
  connection: `Framing` says what the client returns there, and the runs of
  the programs have the timeout between two responses only.
* The bytes at their real radix: lengths are numbers below 16.
* The evaluation of query operators other than equality and `$gte`, of
  aggregation pipelines beyond one `$match` stage and of text search: their
  answers are arbitrary. Index contents and the planner's choice of index.
  Range and Vector indexes.
* In the lifecycle test: timing (`sleep`, `DURATION`), the counters no
  verdict reads, and a socket timeout in tests 1 to 3.
* A socket timeout in `test_crash_during_writes` in a passing run (see
  `occ_desync`).
* The commit-time re-check of unique keys (section 4.4, step 3): the demo
  inserts its duplicate outside a transaction.
* A torn log record: the log is whole after every request.
* A server that applies a write in more than one step: the specification
  puts every write under the commit lock, so `$inc`, commit and drop never
  interleave inside the server, and no run can show a server that loses an
  increment.
* Replication and failover: the cluster is outside the design
  specification, and the cluster tests need a model of it.
* Encryption at rest and vector search: properties of bytes on disk and of
  floating-point distances.
* The memory stress test and the benchmarks: they measure a real server.

## Plan

1. `Retry`: the insert retry loop of `bench_3node.py` against the document
   count it asserts.
2. `heavy_writer` with a socket timeout, as a run of its own: the insert
   it records as confirmed is then the one before, and `NoConfirmedLost`
   fails by the mechanism of `occ_desync`.
3. The lifecycle test with a timeout in its first test: a dropper that dies
   without a count, and the verdict "Dropper never succeeded".
4. `test_data_integrity` with the request a timed-out worker left behind:
   which checks of the verdict, beyond the count of errors, it fails on a
   correct server.
