# Weaviate Python client: specifications

TLA+ specifications of the parts of `weaviate-python-client` in which several
threads, a remote server and failures meet, with the TLC configurations that
check them and the TLAPS proofs of what holds for every instance. Every
definition is translated from the source under `src/weaviate`; the last section
says what is left out.

## 1. The system

The client is a library. Most of it is stateless: a method builds a REST or gRPC
request, sends it and parses the answer. State and concurrency live in a few
places.

| Component | Source | State | Operations and actors | What makes it correct |
|---|---|---|---|---|
| Server-side batch | `collections/batch/sync.py` | two queues, `__uuid_lookup`, two caches, what is in flight, the request queue `__reqs`, seven events, the exception of the threads | user's thread, `BgBatchLoop`, `BgBatchRecv`, one generator per gRPC stream run by the gRPC library, the server | every object is reported once, whatever breaks; references follow their objects; leaving the batch ends |
| Asynchronous batch | `collections/batch/async_.py` | as the server-side batch, and the calls that are suspended | tasks of one event loop, interleaved at every `await` that suspends | the same, with calls gathered on the user's side |
| Client-side batch | `collections/batch/base.py` `_BatchBase` | two queues, `__uuid_lookup`, `__active_requests`, results | user's thread, `BgBatchScheduler`, executor threads running `__send_batch`, `BgDynamicBatchRate` | the same, and the counter of active requests is exact |
| Dynamic batch sizes | `base.py` `__dynamic_batching` | recommended number of objects, concurrent requests | one step per second, from the server's statistics | the batch goes on after the server has asked it to stop |
| Queues | `collections/batch/base.py` | lists under a lock | add, prepend, pop_items | a reference is not popped while an object at one of its ends is in the lookup |
| Results | `collections/classes/batch.py`, `grpc_batch.py`, `rest.py` | uuids and errors by index, at most 100000 uuids | `__add__` of the answers of requests | no outcome overwrites another; the limit drops the oldest |
| Batch wrappers | `batch_wrapper.py`, `client.py`, `collection.py` | the current batch and its results | context managers, `wait_for_vector_indexing` | polling returns when, and only when, what the batch imported is indexed |
| Connection | `connect/v4.py`, `authentication.py` | HTTP and gRPC clients, token, `_connected` | connect, close, `TokenRefresh` threads, requests | what was in use is not left open, the session in use can be renewed, internal errors stay internal |
| Retry | `retry.py` | a count | exponential backoff on UNAVAILABLE | bounded attempts |
| Backup, export | `backup/executor.py`, `export/executor.py` | none in the client | create or restore, poll, cancel | the wait ends, with the end of its own job |
| Iterator | `collections/iterator.py` | a page and the last uuid | `__iter__`, `__next__` | every object once |
| Configuration of a collection | `collections/config/executor.py`, `classes/config.py` | none in the client | update, add_vector, add_property: read, merge, send | what is not named is kept; one quantizer, one module of a kind |
| Executor, event loop | `connect/executor.py`, `event_loop.py` | the loop of the synchronous client | run one implementation twice, sync and async | both colours do the same |
| Embedded server | `embedded.py` | the downloaded binary, a child process | download, start, ensure_running, stop, by several programs | the version asked for, in a process of one's own, stopped with the client |
| Everything else | `collections/*`, `rbac`, `users`, `cluster`, `aliases`, `gql`, `classes` | none | requests and validation | conversions |

**How they interact.** The wrappers create a batch; the user's thread fills its
queues; the background threads move items from the queues to the server and
results back into a shared `_BatchDataWrapper`, which the wrappers expose when
the context manager is left. All of a batch's threads share memory; some of it
is guarded by locks, much is not. The batch calls the connection, which uses
retry and authentication.

**What is hard.** Five actors of the server-side batch share a dozen variables,
and the server may announce a shutdown, run out of memory, slow the client down,
hang up, or answer while any of them is between two statements. A broken stream
loses an unknown part of what was sent; the client sends again what has no
result, so an object may be answered twice. In the client-side batch an answer
splits a request into imported, failed and retried objects, and the retried ones
re-enter the queue that the scheduler empties. Around the batches, a call is often
several requests that nothing keeps together: a status is polled, a page is read,
a schema is fetched and sent back while other clients do the same. `PROJECT.json` lists each of
these hazards at its line with the properties that cover it.

## 2. Modules

    BatchImport          what a batch promises, whichever algorithm it uses
      ^ implemented by
    StreamBatch          the server-side batch, threads   <- MCStreamBatch   StreamBatchProofs
      AsyncBatch         the server-side batch, tasks     <- MCAsyncBatch    AsyncBatchProofs
    ClientBatch          the client-side batch            <- MCClientBatch   ClientBatchProofs
      DynamicBatch       the sizes of its requests
    BatchResults         what becomes of the outcomes     <- MCBatchResults  BatchResultsProofs
    Connection           connect, close, tokens, requests <- MCConnection    ConnectionProofs
    Jobs                 backups, restores, exports       <- MCJobs          JobsProofs
    Collection           clients of one collection        <- MCCollection    CollectionProofs
      Cursor             loops over it
      Schema             changes of its configuration
      Indexing           the wait for its vectors
    Embedded             the server as a child process    <- MCEmbedded      EmbeddedProofs

An MC module has the instances that TLC checks, a Proofs module the theorems.
`AsyncBatch` and `DynamicBatch` extend, or are extended by, the batch they belong
to. `Collection` puts three modules side by side, which share no variable: a
behaviour of it follows one of them.

### BatchImport

An object goes from "new" to "pending" to "imported" or "failed" and no further;
a set of references is released when all their objects have an outcome in
`Enough`. The two batches differ in `Enough`: the server-side batch waits for
"imported" (a failed object blocks its references for ever), the client-side
batch releases the references of a failed object too.

### StreamBatch (`collections/batch/sync.py`)

| Actor | Actions | Code |
|---|---|---|
| Main | `AddObject`, `QueueObject`, `CacheObject`, `AddReference`, `CacheReference`, `Unblock`, `Flush`, `RaiseDead`, `Shutdown`, `Wait` | `_add_object`, `_add_reference`, `flush`, `_shutdown`, `_wait` |
| Loop | `LoopPopObjects`, `LoopPopReferences`, `LoopGenerate`, `LoopGenerated`, `LoopGate`, `LoopPut`, `LoopFinish`, `LoopPutSentinel`, `LoopExit` | `__loop`, `__generate_stream_requests`, `__put` |
| Sender, one per stream | `SendRequest`, `SendStop`, `SendReturn`, `SendRenew` | `__send` |
| Recv | `RecvStart`, one action per message kind, `RecvEnd`, `RecvHangup`, `RecvError`, `Reconnect`, `ReaddObjects`, `ReaddReferences` | `__recv`, `recv_wrapper`, `__reconnect` |

Actions are cut where the code lets another thread in between: `_add_object`
makes three steps (lookup, queue, cache); the loop pops objects, then
references, then yields requests one by one, each through the pause gate and the
blocking `put`. A message is handled in one step, which is coarser than the code:
only Recv handles messages, and the other threads test its variables one at a
time.

The variables have the names of the attributes, without the leading underscores.
`events` is the set of the `threading.Event`s that are set. An object stands for
its uuid: a program that adds a uuid twice is not modelled. Queues are bags: the
order among queued items decides which of them are popped together, and the
model pops any of the right number. `chunk` is what the generator of
requests has popped and not yet yielded; `held` the request in `__put`. The
server is external: `unacked` and `unresolved` hold what it has received, and it
may answer in any order, refuse what is in `Rejectable`, and do what
`Env` allows. `MayHappen` bounds its failures: each one ends a stream, and there
are at most `MaxStreams`.

A reconnect may fail in three ways. `__reconnect` catches two kinds of errors
(`sync.py:483`), tries six times and notes the last one in `__bg_exception`
(`"unreachable"` in `Env`). Any other error of `connect`, as the one of the question for
the OIDC configuration (`v4.py:426`), leaves it (`ReconnectRaises`): after an announced
shutdown `recv_wrapper` notes it (`"raises"`), after a hangup nobody does, since the call
is outside the `try` (`sync.py:522`, `async_.py:166`; `"raises_hungup"`). And with one
node or `ConsistencyLevel.ALL` (`AwaitsNodes`) it asks for the nodes before each attempt;
a failed one has closed the connection, through which no node is seen any more
(`base.py:923`), so that it waits for ever and never tries again (`ReconnectWaits`).

### ClientBatch (`collections/batch/base.py`)

| Actor | Actions | Code |
|---|---|---|
| Main | `AddObject`, `AddReference`, `Unblock`, `StartFlush`, `FlushActive`, `FlushObjects`, `FlushReferences`, `RaiseDead`, `Shutdown`, `Join` | `_add_object`, `_add_reference`, `flush`, `_shutdown` |
| Scheduler | `SchedStart`, `SchedPopObjects`, `SchedSubmit`, `SchedFails`, `SchedExit` | `__batch_send` |
| Worker | `ObjectsAnswered`, `AllObjectsFailed`, `CallFails`, `ReleaseLookup`, `RecordObjects`, `SendReferences`, `FinishRequest` | `__send_batch`, `_BatchGRPC.objects`, `_BatchREST.references` |
| Rescale | `Rescale` | `__dynamic_batching` |

The three reads of `flush` are three actions, since nothing holds them together.
A worker's request is answered object by object (`ObjectsAnswered`), with no
success at all (`AllObjectsFailed`: the code raises and puts the messages of all
errors into one), or not at all (`CallFails`). The two paths keep different
things: the errors of an answer hold `BatchObject`s rebuilt from the encoded
ones, which have lost their `retry_count` and have their uuid as a `str`; the
errors of an exception hold the queued `BatchObject`s. `retry_count` and
`uuid_objects` (the objects whose uuid is a `uuid.UUID`, generated by the client)
follow that.

`DynamicBatch` has the arithmetic of `__dynamic_batching` as operators from a pair
of sizes to the pairs that may follow it: `WhenEmpty` and `WhenFilled` by the
server's queue, `WhenTook` by the time requests take when the vectorizer batches.
The literals of the code are its constants, since an instance has two objects, not
a thousand. `mode` says which of them is in use; a server that indexes
asynchronously is sent a lot at once (`SendALot`), and fixed sizes never change.

### AsyncBatch (`collections/batch/async_.py`)

The algorithm is that of `sync.py`, so `AsyncBatch` extends `StreamBatch` and
takes its generator and its messages; the user's calls, the two tasks and the
restart of a stream are its own actions. They are cut at the awaits that suspend:
a sleep, `__reqs` full or empty, the stream, the connection. An `asyncio.Lock`
whose holder never suspends does not. So `AddObjectAsync` queues, caches and
numbers an object in one step, where the thread takes three, and several calls may
be between their check and that step (`entered`) or wait for the batch to unblock
(`waiting`). `flush` does not test whether the tasks are alive, and `_wait`
cancels them when its time is over. A reconnect fails as it does in StreamBatch.

### BatchResults (`collections/classes/batch.py`)

An object is its index. Requests hold any indices, in any order, since what is
tried again goes to the front of the queue; an answer (`ObjectsAnswered`,
`ReferencesAnswered`) or the exception in place of it (`ObjectsRejected`) becomes
a return value, loses what is tried again (`Without`), and is added to the results
(`AddObjs`, `AddRefs`). The keys are what the module is about: an answer numbers
errors by the objects' indices, an exception and references by their place in the
request.

### Connection (`connect/v4.py`, `connect/authentication.py`, `retry.py`)

| Actor | Actions | Code |
|---|---|---|
| Owner: user's thread, or a batch that reconnects | `OpenRest`, `OpenGrpc`, `Checks`, `CloseSession`, `DropSession`, `DropChannel`, `Disconnect` | `connect`, `close` |
| `TokenRefresh`, one per session | `Wake`, `Refreshed`, `Refused`, `RefreshFails` | `periodic_refresh_token` |
| User's threads | `Check`, `Build`, `Send`, `Call`, `Caught` | `_send`, `grpc_stub`, `_Retry` |

`close` drops its clients one after another while requests read `_client` three
times. Every `connect` starts another refresh thread, and none is ever stopped
(`_shutdown_background_event` is never set), so the threads of closed sessions go
on and renew the session in use. The OAuth server is external; its refresh tokens
are good for one use.

Not every session becomes `_client`. One whose `fetch_token` fails is dropped as
`get_auth_session` raises (`authentication.py:205`, `259`), and a refresh with client
credentials makes a session for nothing but its token (`v4.py:567`). Nobody closes
these: they are the `strays`. Nor does everyone who calls `connect` close the connection
when that raises: `connect/helpers.py` and `__reconnect` do; `__enter__` and `__aenter__`
do not (`client.py:168`, `91`), which is `"no_close"` in `Env`.

### Jobs (`backup/executor.py`, `export/executor.py`)

A call posts a job and, with `wait_for_completion`, polls its status until the job
has ended. The server runs one job per operation and lower-case name, and may be
asked to run it again; it ends a job in any way, and other calls cancel it.
`number` counts the jobs of a key, so that properties can say which job a call
reports.

### Cursor, Schema, Indexing, Collection

`Cursor` is `_ObjectIterator`: the page that is left and the last uuid, with
several `for` loops over one iterator and a server to which objects are added and
deleted. `Schema` is what `config.update`, `add_vector` and `add_property` do:
read the schema, merge (`Merged`, `VectorAdded`), send it, with several clients at
it. `Indexing` is `wait_for_vector_indexing`: shards read one after another,
readings that fail and begin anew, pauses. In each the server is external and
answers from its present state.

### Embedded (`embedded.py`, and its callers in `v4.py` and `client_executor.py`)

`start` looks at the ports (`Check`), downloads what is missing step by step
(`Download`, `Extract`, `Rename`, `Chmod`), starts a process (`Popen`) and waits
until somebody listens (`Listens`, `TimesOut`). `New` is the constructor's call,
`EnsureRunning` the one before each request; `Stop` and `Join` are `stop`, called by
`Close`, by a `connect` whose server does not become ready, and by `__del__`.
Several clients, one to a program, share the directory and the ports. The server
process is external: it binds one port after another, and exits when one is taken
or on SIGTERM, or crashes. `server[i].left` marks the servers of a program that was
killed, which nobody is there to stop.

## 3. Runs

Bounds. Two objects and one reference between them are the least that has a
reference with two ends, two objects in different requests and an object that
waits while another one is answered; two or three streams let a failure follow a
failure; two workers let requests overlap; `MaxThrottles` bounds how often the
vectorizer refuses, `MaxStops` how often the server stops the batch, and
`RetryLimit` is 0 instead of 5 so that both sides of the limit are reached. A
request holds up to `MaxPerRequest` items. Four objects with a limit of two are
answered out of order across the limit. Two sessions and three renewable tokens
let the thread of a closed session meet the one of the next. Three objects with
pages of two make a second page, two changes hit both pages; two clients and two
changes of the schema are the least that loses one. Two programs share one of two
ports, so that each can be in the other's way, and four processes let both have one
that was left behind.

| Run | Question | Properties | Distinct states |
|---|---|---|---|
| `stream_faults` | every event of `EnvEvents`, preempted threads and slow joins included | `TypeOK` `AtMostOneOutcome` `RefsAfterObjects` `ImplementsImport` | 1,959,670 |
| `stream_graceful` | shutdowns, out_of_memory, renewals, reconnects that fail, three streams | `SentOnce` `Delivered` `Terminates` | 126,573 |
| `stream_hangup` | streams that break with and without a restart, three streams | `NothingLost` `ReportedAtExit` `Terminates` | 564,546 |
| `async_batch` | the tasks, gathered calls, the events of `TaskEvents` | `IndicesDiffer` `NothingLost` `ReportedAtExit` `ImplementsImport` `Terminates` | 210,928 |
| `client_faults` | every event, two workers, every branch of the sizes by the queue | `TypeOK` `RequestsCounted` `ExactlyOnce` `ImplementsImport` | 776,372 |
| `client_live` | failing calls, a dying scheduler, a server that stops the batch, all modes | `ReportedAtExit` `Terminates` | 314,033 |
| `batch_results` | four objects, three references, a limit of two | `LatestKept` `NoErrorOverwritten` `OutcomesApart` | 321,930 |
| `connection` | two sessions, three kinds of credentials, failures everywhere | `NothingLeaks` `FailsOnlyIfDisturbed` `Renewable` `ExpiredReplaced` | 615,815 |
| `jobs` | two threads, one name, a restore that runs twice | `Truthful` `CanceledOnRequest` `WaitingEnds` | 520,980 |
| `collection` | two loops, two clients, two shards | `TypeOK` `EachOnce` `OneOfAKind` `IndexedOnReturn` `LostOnlyToOverlap` | 3,644,096 |
| `embedded` | two programs, failing downloads, crashes, kills, servers that are not ready | `RunsWhatWasAsked` `OwnServer` `StopsServer` `Recovers` | 29,247 |

* `AtMostOneOutcome`: an object is never reported twice, however often its
  request was lost, handed back, repeated or answered.
* `RefsAfterObjects`, `ImplementsImport`: references leave after their objects.
* `SentOnce`: while no stream breaks and no thread fails, an unreported object has
  exactly one copy on its way, so an out_of_memory message that hands part of the
  objects back and a shutdown that drains the rest never duplicate or drop one.
* `NothingLost`: when streams break, an unreported object has at least one copy
  or will be queued again from the cache.
* `ExactlyOnce`, `RequestsCounted`: the same accounting for the client-side batch.
* `ReportedAtExit`, `Delivered`, `Terminates`: leaving the batch ends, and then
  everything is reported, unless an exception is raised or logged (`Excused`).
  In `client_live` the server tells the batch to send nothing, and `Terminates`
  needs the step that adds to a size of 0.
* `IndicesDiffer`: calls gathered on one event loop get different indices.
* `LatestKept`, `NoErrorOverwritten`, `OutcomesApart`: the limit of stored uuids
  loses only the oldest, whatever the order of the answers; no error takes the
  place of another; what waits or is tried again has no outcome yet.
* `NothingLeaks`, `FailsOnlyIfDisturbed`: if whoever calls connect closes when it
  fails, no session that was in use is left open, wherever connect fails, and after
  close only the strays are; errors that are none of the client's own reach only
  requests during which the connection was being closed.
* `Renewable`, `ExpiredReplaced`: although old threads compete for its refresh
  token, the session in use can be renewed, and an expired token is replaced.
* `Truthful`, `CanceledOnRequest`, `WaitingEnds`: a waiting call returns, with the
  end of a job of its own name and operation that ran since it was made, and a job
  is canceled only on request.
* `EachOnce`: a loop that no other loop over the same iterator interrupts gets
  every object that was there all the time exactly once, in order.
* `LostOnlyToOverlap`, `OneOfAKind`: a change is lost only to a call that had read
  the schema before; no overlap enables two quantizers or two modules of a kind.
* `IndexedOnReturn`: the wait for the vectors returns only when all of the batch's
  are indexed, though no two shards are read at the same time.
* `RunsWhatWasAsked`, `OwnServer`, `StopsServer`, `Recovers`: whatever failed or was
  killed before, a client executes the version it asked for, waits on ports that only
  its own process has taken, leaves none behind, and gets a new one after a crash.

`stream_faults` has `CHECK_DEADLOCK FALSE`: with every failure allowed, `late`
ones included, the threads may really end up waiting for one another; `_wait`
then returns through its timeout. `async_batch` has it because `flush` waits for
ever once a task has died, `batch_results` and `collection` because their
bounds let everything come to rest. Each property has a mutant in `PROJECT.json`: a
definition changed as a plausible bug would, with which TLC finds the property
violated.

**Fairness.** Threads are scheduled, so every action of a thread that stays
enabled is taken (WF), thread by thread; the server answers what it has received,
ends a stream that it or the client has asked to end, and shuts down after an
out_of_memory (WF on the message actions); failures and backoffs need not
happen. The user leaves the batch at some time (WF on `Shutdown`, `StartFlush`);
without that a program that waits for ever would refute every liveness property.
In ClientBatch the scheduler and the workers are strongly fair: Main's flush
sleeps 10 ms between its attempts, so the others get their turn although they are
not enabled during its reads; and a server to which nothing is sent works off its
queue, so the sizes leave 0 again (`Resume`). In AsyncBatch the event loop runs
every task that can go on. In Connection the refresh threads wake up and the OAuth
server answers a request that it may accept again and again; in Jobs the server
ends every job it has started and a thread that waits polls on. In Embedded a
thread that has begun to start or stop goes on, the server binds its ports and
exits on SIGTERM, and requests are made again and again: `EnsureRunning` is
strongly fair, since it is not enabled while another request starts the server.

### What the code does not keep

The run `client_gives_up` states what a comment says ("too many retries, give up",
`base.py:670`), as `GivesUp`, and TLC shows the code doing otherwise: the retry count
is lost in `_to_internal`, so that an object whose vectorizer stays busy is sent for
ever.

More can be reproduced by changing a constant of a passing run:

* `Env = {"oom", "hangup"}` in `stream_hangup`: a stream that breaks after
  out_of_memory, before it is shut down, leaves `is_oom` set; the generator of the
  next stream returns at once, and the batch ends without its objects and without an
  error (`ReportedAtExit`), although `sync.py:426` announces one.
* `Env = {"preempt"}` there: an object is queued before it is
  cached; a result that arrives in between is dropped (`NothingLost`).
* `Env = {"hangup", "fast_reconnect"}` there: a reconnect faster than the second a
  generator waits in `Queue.get` leaves the old generator alive, which takes the
  new stream's request (the threads then wait for one another).
* `Env = {"shutdown", "late"}` there: a shutdown announced after the sentinel
  opens a stream nobody ends; the batch ends only through the timeout of `_wait`
  (TLC reports a deadlock).
* `Env = {"hangup", "raises_hungup"}` there or in `async_batch`: the error of a
  reconnect after a hangup ends the receiving thread, and nobody notes it. `__is_hungup`
  stays set, what is cached is never queued again (`NothingLost`) and the loop goes round
  without an end or waits at its gate (`Terminates`; TLC reports a deadlock first).
  Leaving the batch takes the whole timeout of `_wait`, which passes in silence: with
  `"join_timeout"` too, objects are missing from the results without an exception
  (`ReportedAtExit`).
* `AwaitsNodes = TRUE` there, with `Env = {"hangup", "unreachable"}`: a reconnect that
  fails once waits for ever for the nodes (`Terminates`), although `sync.py:479` logs
  the first of five attempts.
* `Env = {"shutdown", "raises"}` in `stream_graceful`: the error is noted, but
  `__is_shutting_down` stays set, and the loop waits at its gate (`Terminates`) until
  `__oom_wait_time` is over, which is `"oom_wait"` in that run.
* `Env <- EnvEvents` in `connection`: after a connect that failed in `__enter__` another
  one opens a new session, and the first is never closed (`NothingLeaks`).
* `Rejectable = {o1}` in `stream_graceful`: a refused object stays in
  `__uuid_lookup`, its references are never sent and the batch never ends (`Terminates`).
* `Generated = {o1}` in `client_faults`: a generated uuid (`uuid.UUID`) is not found
  among `readded_uuids` (`str`), so its references overtake the object
  (`ImplementsImport`).
* `Env = {"preempt"}` in `client_live`: a request starts between the three reads
  of `flush`, which returns with it in flight (`ReportedAtExit`).
* `Env = {"error"}` in `async_batch`, with deadlock checked: a task has died and
  `flush` waits for a queue nobody empties (`async_.py:533`; `sync.py:554` raises).
* `Env = {"together"}` and `Ports <- Shared` in `embedded`: two programs start on the
  same ports at once; both find them free, and one is content with the other's server
  (`OwnServer`).
* `Wanted <- Urls` there: two URLs that are not GitHub's share one binary, and the
  second client runs what the first one downloaded (`RunsWhatWasAsked`), although
  `connect/helpers.py:232` calls `version` the version to be used.
* `Env = {"slow"}`, `Client = {c1}` and `Thread = {t1}` there: a server that listens
  too late is started a second time; only the second process is stopped at close
  (`StopsServer`), although `client_executor.py:134` says that the server is closed.
* `Client = {c1}`, `Of <- AllOne` and `Env = {}` there: a request of another thread
  comes while `close` has stopped the server and not yet cleared `_connected`; it
  starts the server again, and nobody stops it (`StopsServer`).

Other facts are part of the models, and the properties are stated around them:

* A reference that is queued again, after a broken stream or by out_of_memory, cannot be
  encoded again, since `_to_internal` has changed it: the loop thread ends
  (`Unsendable`), and with it the objects it had popped. No stream need break for that:
  a batch with a third object shows it, and `SentOnce` promises nothing after it.
* An exception of a background thread after the last add is logged, not raised
  (`Excused`).
* Two references of one property share a key of `__refs_cache`: with
  `Beacon[r1] = Beacon[r2]` the error of the one is recorded for the other.
* A request that fails as a whole numbers its errors by position (`base.py:626`),
  all others by the objects' original indices, as the docstring of
  `BatchObjectReturn` has it: `NoErrorOverwritten` speaks of batches without one.
* A reconnect with a bearer token starts from the token the user gave, whose
  refresh token may be used up: `Renewable` speaks of the first session.
* A program killed between `rename` and `chmod` leaves a binary from a zip file that
  cannot be executed, is never replaced, and makes every later start fail; a program on
  other ports that starts between the two steps fails as well: the exceptions in
  `RunsWhatWasAsked`.
* Two loops over one iterator share its page; `EachOnce` promises nothing to a loop
  that was interrupted.
* Two clients that change a schema at the same time lose each other's changes, since
  `update` sends back all that it has read.

## 4. Proofs

TLC checks small instances; the theorems hold for every value of the constants: any
finite set of objects, references, threads, clients, jobs or ports, any bound on
streams, retries and crashes, and every `Env` unless the table says otherwise. They
rest on the assumptions that the modules name (`ConstantsOK`, `NoneOK`,
`EmbeddedConstantsOK` and the like, which TLC evaluates in the runs): types of the
constants, and what the code has them satisfy, as `Ports(c) # {}`, or that there are as
many threads in the pool as requests may overlap (`BaseRequests` in ClientBatch).

| Module | Theorem | Statement | Hypothesis |
|---|---|---|---|
| StreamBatchProofs | `TypeCorrect` | `[]TypeOK` | |
| | `OneOutcome` | `[]AtMostOneOutcome` | |
| | `ReferencesWait` | `[]RefsAfterObjects` | |
| | `StreamImplementsImport` | `ImplementsImport` | |
| | `LosesNothing` | `[]NothingLost` | `Calm` |
| | `SendsOnce` | `[]SentOnce` | `Gentle` |
| | `ReportsAtExit` | `[]ReportedAtExit` | `Calm`, `Patient` |
| AsyncBatchProofs | `NoIndexTwice` | `[]IndicesDiffer` | |
| | `AsyncOneOutcome` | `[]AtMostOneOutcome` | |
| | `AsyncReferencesWait` | `[]RefsAfterObjects` | |
| | `AsyncImplementsImport` | `ImplementsImport` | |
| ClientBatchProofs | `TypeCorrect` | `[]TypeOK` | |
| | `CountsRequests` | `[]RequestsCounted` | |
| | `InOnePlace` | `[]ExactlyOnce` | |
| | `ReportsAll` | `[]ReportedAtExit` | no `"preempt"` |
| | `ClientImplementsImport` | `ImplementsImport` | `Generated = {}` |
| BatchResultsProofs | `KeepsLatest` | `[]LatestKept` | |
| | `OverwritesNoError` | `[]NoErrorOverwritten` | |
| | `KeepsOutcomesApart` | `[]OutcomesApart` | |
| ConnectionProofs | `Leaks` | `[]NothingLeaks` | no `"no_close"` |
| | `Disturbed` | `[]FailsOnlyIfDisturbed` | |
| | `StaysRenewable` | `[]Renewable` | |
| JobsProofs | `OnRequest` | `[]CanceledOnRequest` | |
| | `Honest` | `[]Truthful` | |
| CollectionProofs | `TypeCorrect` | `[]TypeOK` | |
| | `GetsEachOnce` | `[]EachOnce` | |
| | `NeverTwo` | `[]OneOfAKind` | |
| | `WaitsForTheBatch` | `[]IndexedOnReturn` | |
| | `LosesOnlyToOverlap` | `LostOnlyToOverlap` | |
| EmbeddedProofs | `RunsAsked` | `[]RunsWhatWasAsked` | `OneVersion` |
| | `ServedByOwn` | `[]OwnServer` | `InTurn` |
| | `StopsItsServer` | `[]StopsServer` | `InTurn`, `OneThread` |

**The hypotheses** are the conditions under which the code keeps its promise: where one
is dropped TLC finds the property violated, with the exceptions named below, and section 3
tells the most instructive of the behaviours.

* `Calm`: Main is not preempted between queueing and caching (`"preempt"`), and a
  stream that breaks leaves neither a pause (`"oom"`) nor a generator
  (`"fast_reconnect"`) behind, and no reconnect that raises (`"raises_hungup"`).
  `NothingLost` is violated with `"preempt"`, and with `"hangup"` and one of
  `"fast_reconnect"` and `"raises_hungup"`; `ReportedAtExit` also with `"hangup"` and
  `"oom"`, but with `"raises_hungup"` only if `_wait` runs out of time as well.
  `"hangup"` and `"oom"` do not violate `NothingLost` for two objects; the proof does
  not cover the pair, because `FlowInv` then fails: a stream that ends with an old `"oom"` still set ends
  the loop's work without the loop having exited.
* `Gentle`: no preemption, and no stream breaks: `SentOnce` counts copies, and a break
  leaves more than one. `Patient`: the server does not fail after the sentinel and
  `_wait` has the time (`"late"` with `"shutdown"` and `"hangup"`, or `"join_timeout"`
  with `"shutdown"`, violate `ReportedAtExit`).
* In Connection whoever calls `connect` calls `close` when it raises; otherwise the next
  `connect` drops a session (`"no_close"`). That strays are never closed is part of the
  statement.
* In ClientBatch no request starts between the three reads of `flush`; and all uuids are
  given by the user, since a generated one is not recognised when its object is tried
  again.
* In Embedded a file name stands for one version (`OneVersion`: true of versions with a
  number); starts on common ports do not overlap (`"together"`) and a server is ready in
  the time `wait_till_listening` gives it (`"slow"`; both `InTurn`); a client is used by
  one thread. TLC finds `OwnServer` and `StopsServer` violated without `InTurn`, and
  `StopsServer` with two threads.

**StreamBatch**, in layers:

1. `TypeInv` is `TypeOK` with `StreamLeft`: a server that has announced the end
   of its stream left a number for the next one, as the guards of the failures
   ensure.
2. `OutcomeInv`: an object with an outcome is not in the cache, and an object
   that is still being added has no outcome and is not in the cache either. The
   property alone is not inductive: a second answer is harmless only because the
   first one took the object out of the cache, and nothing puts it back.
3. `ReferenceInv`: an object that was added and is not imported is in
   `__uuid_lookup`; whatever is queued or cached has been added, together with the
   objects it connects; and every reference that is popped (in `chunk`) or encoded
   has only imported objects at its ends. It is needed because encoding comes
   steps after popping, and because a broken stream queues references again.
4. The refinement maps `status` to what results and failed objects list and
   `released` to `encoded`; a step of Main submits, a result settles, an encoded
   request releases, the rest stutters.
5. `FlowInv` says where the threads can be while nothing has failed: a request is held
   only at the gate and the put, the only open stream is the one Recv reads, a stream
   closed without an announcement was closed by the sentinel of a loop that has ended.
   `CacheInv`: what has no outcome is in the cache. On these rests `WayInv`: what has
   no outcome has a copy in the queue, the chunk, the request or a stream, or Recv is
   about to queue it again. `OnceInv` makes it an equation: `OnWay(o) + Outcomes(o)` is
   1 for what was added and 0 for the rest. `OnWay` leaves out what the server has not
   answered when a stream ends, which `SentOnce` itself counts: the two agree because
   nothing is unanswered then.
6. `ExitInv` follows the end: `stopped`, then a loop that has sent the sentinel with
   its queue empty, then a stream that ends with everything answered, then Recv.

**AsyncBatch** takes the first four layers with their lemmas, since it takes the actions;
its own are `CallsInv` (what has entered a call is not yet added, and the places where
only the thread can be interrupted are never reached) and `IndexInv` (indices in use are
below the counter).

**ClientBatch.** `PlaceInv` counts in how many places an object is (queue, what the scheduler has popped,
requests, outcomes): 1 while the scheduler lives, at most 1 when it has taken what it
held with it. It needs `HeldInv`, what a request holds
at each point of `__send_batch`: the sets of an answer must be disjoint and cleared at
the right step. `CountInv` needs the case of the dead scheduler too, whose request is
counted and never finished. `ExitInv` carries what each read of `flush` has found to the
end. `LookupInv` ties the lookup to the outcomes: an object that is not in it was
imported or refused. With a generated uuid that is false: it leaves the lookup while its
object is tried again.

**BatchResults** reasons about the data itself: what `Update`, `Trimmed`, `Renumbered` and
`Values` do to dictionaries and sequences of every length. `Trimmed` keeps the latest in
a form that later additions cannot spoil (`Latest`: what is missing is
`MAX_STORED_RESULTS` or more behind the maximum). The keys of references' errors are
bounded (`Numbered`), so that those above the highest are free; `ApartInv` needs the requests under
way to be disjoint from each other and from the queue. `Values` is a recursive function:
its facts (`ValuesKeep`) are proved by taking the least place at which they fail, as the
natural numbers are well-founded.

**Connection.** `LeakInv` says at each statement of `connect` and `close` that all
sessions but the one in use and the strays are closed, and which channel is open; `CallInv`, that an
undisturbed request has the stub of that channel; `TokenInv`, that the token of the
session in use is unused, and that some thread sleeps before it presents it or has
presented one that is still good. Both must be kept together, since a thread of another
session may use up the token, and since no token is used when only client credentials
are known.

**Jobs.** `WaitInv` relates the number a call has seen to the number of the key's jobs
and, once the call has ended, its result to a job that `ended` since. `StatusInv` says
that a final status is that of the latest job, `AskedInv` that nothing is canceled that
nobody asked for.

**Collection.** Of a loop: its page is what follows the last uuid, in order and without
gaps, of what was there all the time. Of the schema: whoever has read the current version
has read the current schema (`SeenInv`), and what was read has one quantizer and one
module of a kind as the schema does (`SingleInv`); a merge of such a schema is such a
schema. Of the wait: shards that were read and found ready hold nothing of the batch
(`ReadyInv`): other clients' items still come, those of the batch do not.

**Embedded.** `FilesInv`: what is under a name is of its version and complete, one thread
at a time extracts, and what is not executable is a zip file's member whose extractor is
about to make it so. `PortsInv`: between the look at the ports and the end of the wait
nobody else binds them, because a server that can still bind has somebody waiting for it
and such waits do not overlap on common ports; it follows that the ports of a client are
not all served while its own server is incomplete (`NotYetServed`), so that neither
`Listens` nor `Kill` meets one half-way. `KeptInv`: a server that runs is the one its
client knows.

**What the proofs changed.** Three properties were stated too strongly or too weakly and
held in the instances alone. `SentOnce` is false when a reference handed back by
out_of_memory ends the loop, which needs three objects. `RunsWhatWasAsked` is false for two
programs on different ports, one of which starts between the other's `rename` and
`chmod`. `OwnServer` made an exception of killed programs that is not needed.

**Only model-checked.** Liveness (`Terminates`, `Delivered`, `ExpiredReplaced`,
`WaitingEnds`, `Recovers`) and with it every use of fairness, which the prover does not
reach; and `NothingLost` and `ReportedAtExit` of AsyncBatch, which have a theorem only in
StreamBatch: their invariants speak of the threads' steps.

## 5. Plan

1. Done: all modules of section 2, and theorems for every invariant and action property
   that a run checks.
2. `NothingLost` and `ReportedAtExit` of `AsyncBatch`: `FlowInv`, `CacheInv` and `WayInv`
   from its actions, where cancelled tasks and gathered calls take the place of Main.
3. `LosesNothing` for streams that break while out_of_memory pauses them, which needs
   a `FlowInv` that admits a pause without a cause.
4. `DynamicBatch`: the sizes and the number of requests stay within their bounds in every
   mode, as lemmas about its operators rather than through `TypeOK`.
5. `RateLimit`, with a clock: the comment at `base.py:318` says that rate-limited
   batching never sends more than the given number a minute, but the time between
   requests, `62 // concurrent_requests`, is rounded down.
   `StreamRequests`: `__generate_stream_requests` with sizes, so that no request
   exceeds the message limit; `Fill` abstracts it.

## 6. Not modelled

* Names, properties, vectors, tenants, consistency levels, logging.
* Time: the sleeps of rate-limited batching, of a slow vectorizer, of retries and of
  the backoff messages are only points at which other threads run; timeouts are
  events the environment may produce. The first refresh of a token is due when it
  expires (`v4.py:601`), not 30 seconds before as later ones: a difference in time
  only.
* Answers of the OAuth server that are lost after it has used up a refresh token:
  the client has no way to recover from them.
* Of the asynchronous iterator and of `wait_for_vector_indexing` of the asynchronous
  client, the awaits: one task at a time uses an iterator, and shards are read in
  any order in both.
* Sending tenants in groups of 100, `update_shards` and `delete_property_index`: one
  request after another, without a state in between.
* The sizes of messages other than "fits" and "does not fit" (`Oversized`).
* The number and health of nodes that the loops wait for, but for the fact that a
  closed connection shows none.
* Objects added twice under one uuid.
* Of the embedded server: downloads that overlap (they share one archive name, so that
  the files can hold anything), a program that is killed while its server binds its
  ports, a server that ignores SIGTERM, and `EmbeddedV3`, which no client uses.
* Everything `components` in `PROJECT.json` lists as `not_modelled`, each with
  its reason.
* Most lines of the repository. Two thirds of `src/weaviate` are declarations:
  pydantic models and builders of the configuration and query classes, overloads
  and stubs of one method for each combination of types, the sync and async twins of
  an executor, and generated protobuf code. They keep no state and order nothing, so
  that a state machine has nothing to say about them; what the map covers is
  concentrated in the files that do, and the largest of these are covered in most
  of their lines.
