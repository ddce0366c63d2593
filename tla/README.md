# A TLA+ verification of multithreaded-webserver-cpp

This directory models the concurrent core of the web server and the components
it is built from, checks the models with TLC on small instances, and proves with
TLAPS, for every value of the constants, the safety properties of the thread pool,
the server, its life cycle, the cache, the file handler, the rate limiter and the
exchange of requests and responses. File and line references are to the repository (`src/server.cpp`, `include/server.h`, ...).

## 1. Inventory

### Components, their state and operations

| Component | Code | State | Operations that change it |
|---|---|---|---|
| Thread pool | `include/thread_pool.h`, `src/thread_pool.cpp` | `tasks_`, `shutdown_`, `queue_mutex_`, `condition_`, one future per task | `enqueue`, `worker_thread`, `shutdown` |
| Server | `src/server.cpp`, `include/server.h` | `connections_` (descriptor -> `Connection`), `connections_mutex_`, each `Connection` with its `mutex_` | `handle_accept`, `handle_client_data`, `handle_client_write`, `cleanup_inactive_connections` (event thread); `handle_client_request` (workers); `send_response_async`, `close_connection` (both) |
| Epoll wrapper | `src/epoll_wrapper.cpp` | the kernel's interest list | `add_fd`, `modify_fd`, `remove_fd`, `wait_for_events` |
| Life cycle | `src/main.cpp`, `Server::start`, `Server::stop` | `running_`, `event_thread_`, `server_fd_` | signal handler, `start`, `stop`, destructors |
| LRU cache | `src/cache.cpp` | `cache_`, `lru_list_`, `current_size_`, statistics | `get`, `put`, `remove`, `clear`, `evict_lru` |
| File handler | `src/file_handler.cpp` | the cache, the files on disk | `handle_file_request`, `read_file`, `clear_cache` |
| Rate limiter | `src/rate_limiter.cpp` | `buckets_`, `last_cleanup_`, statistics | `is_allowed`, `cleanup_expired_buckets`, setters |
| HTTP request | `src/http_request.cpp`, `Server::is_http_request_complete` | the buffer of a connection | `parse`, `url_decode`, `is_request_valid`, `is_keep_alive` |
| HTTP response | `src/http_response.cpp` | length, body, `Connection` header | `set_body`, `set_keep_alive`, error pages |
| Logger | `src/logger.cpp` | two streams, two mutexes | `init`, `log_access`, `log_error`, `flush` |

### How they interact

The event thread waits in epoll, accepts connections, receives bytes and hands
complete requests to the thread pool as tasks that hold a `shared_ptr` to the
`Connection`. A worker parses the buffer, asks the file handler (and through it
the cache) for a response, looks the connection up again **by descriptor
number**, and writes the response; what the socket does not take at once is left
to the event thread, which is told by `EPOLLOUT`. Both sides close connections.
They share the connection map, the connections, and, less visibly, the
descriptor table of the process: a number that one thread closes is given to the
next client that is accepted. The rate limiter and the logger are compiled and
tested but no part of the server calls them.

### What is hard

* Two mutexes, taken in both orders (`server.cpp:291` then `293`; `493` then `504`).
* State that is looked up, unlocked and used later: the descriptor number in a
  worker, the connection found by the event thread, the list of inactive
  descriptors, the file contents on their way into the cache, the shutdown test
  of `enqueue`.
* The order of the last steps of a request: write, then clear the buffer, then
  allow the next request.
* Partial writes, peers that vanish, handlers that throw, descriptors that
  cannot be registered, the connection limit, the idle timeout.
* Sleeping and waking in the thread pool, and its shutdown.
* Signals that interrupt `main` at any step of `start`, of its loop, or of the
  `stop` that another signal has called, or that another thread handles while
  `main` is in its handler; the order in which `stop` takes the pool, the event
  thread and the sockets away from each other.
* Requests that arrive in pieces, lengths that are announced twice or wrongly,
  text that is split and decoded.
* Arithmetic at limits: cache size, elapsed time in milliseconds, `size_t`.

`PROJECT.json` lists these hazards one by one, at their lines.

### What makes each component correct

* **Thread pool**: no wakeup is lost; a task is in one place and runs at most
  once, in order; nothing runs once `shutdown` has returned; `shutdown` returns.
* **Server**: map, descriptors and epoll agree; nothing is closed twice or
  leaked; one handler per connection; every client is sent whole responses to
  its own requests; the threads never wait for each other; a request is answered
  or its connection closed.
* **Life cycle**: `stop` cleans up when every other thread has ended, leaves
  nothing open and closes nothing twice; a signal ends the process, in order.
* **Cache**: map and list agree, the size is exact, eviction is least recently
  used and never more than needed; how far the limit can be exceeded.
* **File handler**: how stale an answer can be; nothing outside the document root
  is served.
* **HTTP**: a request is handed over when it is whole; bodies, paths and
  parameters come through as they were meant; every response says how long it is
  and what becomes of the connection, truthfully.
* **Rate limiter**: no more than burst + rate x time passes in any stretch of
  time; who waits long enough is let through.

## 2. Plan

Done in this order: `TaskPool`, `ThreadPool`, `Server`, `LRUCache`, `FileHandler`,
`RateLimiter`, `Lifecycle`, `Url`, `HttpExchange`; then the proofs: `ThreadPoolProofs`,
`LifecycleProofs`, `ServerProofs`, `RateLimiterProofs`, `LRUCacheProofs`,
`FileHandlerProofs`, `HttpExchangeProofs`, `ServerStreamProofs`. Left:

1. `Lifecycle` with the `ThreadPool` in the place of the `TaskPool` it implements;
2. a condition on what clients and timeouts do, weaker than a single client, under which
   no descriptor number changes hands while a worker uses it, in the place of the
   hypothesis `NumberKept` (section 5).

## 3. Modules

| Module | Models | Extends |
|---|---|---|
| `TaskPool` | what a thread pool promises | - |
| `ThreadPool` | the pool; implements `TaskPool` | - |
| `Server` | event thread, workers, connections, epoll, TCP buffers | - |
| `Lifecycle` | `main`, signals, `start`, `stop`, with the event thread | instantiates `TaskPool` |
| `LRUCache` | the cache | - |
| `FileHandler` | file requests over the cache and a changing disk | `LRUCache` |
| `Url` | lines, targets and query strings taken apart and decoded | - |
| `HttpExchange` | requests and responses of one connection | `Url` |
| `RateLimiter` | token buckets | - |
| `...Proofs` | theorems about `ThreadPool`, `Server`, `Lifecycle`, `LRUCache`, `FileHandler`, `HttpExchange`, `RateLimiter` | the module of that name; `FileHandlerProofs` also `LRUCacheProofs` |
| `ServerStreamProofs` | theorems about what `Server` writes to its clients and how it takes its mutexes | `ServerProofs` |
| `MC...` | instances for TLC (`ThreadPool` and `Lifecycle` need none) | the module of that name |

Definitions called "Mutant" in the modules are deliberate errors: each replaces
one definition and makes one property fail, which shows that the property says
something about that definition.

### ThreadPool

One action per step between two points at which another thread can interfere.
`enqueue` tests `shutdown_` without the lock (`EnqueueCheck`), pushes under it
(`EnqueuePush`) and notifies after it (`EnqueueNotify`). A worker holds
`queue_mutex_` over two steps: `WorkerCheck` evaluates the wait predicate and
`WorkerBlock` goes to sleep. Condition variables may wake spuriously. A task is
a name; its future becomes `"value"` or `"exception"`, or stays `"pending"` for
ever when the pool is shut down first (the loop test at `thread_pool.cpp:50`
ends a worker without draining the queue, and the model keeps that).

### Server

A client makes one connection; its name also stands for the socket and for the
`Connection`. `sock[f]` is the socket descriptor `f` denotes and `connections[f]`
is the map. Everything the code addresses by number is addressed by number in the
model, and `accept` returns the lowest free number, so the confusion of an old and
a new connection under the same number arises exactly where it does in the code.
A request is a sequence of units, the last of which completes it; a response is
`RespLen` units. A socket buffer takes `SndCap` units, so partial writes and
`EAGAIN` happen. Each thread has a label `pc`, and `send_response_async` and
`close_connection` are subroutines with a return label `ret`.

`connections_mutex_` and each `mutex_` are explicit where they are held across a
step (`DataLock` to `DataCheck`, `CloseFind` to `CloseErase`, `RequestPresent` to
`RequestAbandon`, the cleanup scan, the send); a critical section that is one step
is guarded by the mutex being free. Merged into one step are only operations that
no other thread can separate: `remove_fd` with the `close` that follows it, and
the update of a connection's fields with the unlock of its mutex.
Left out: the branch `remaining == 0` of `send_response_async`, shown never to be
taken (`PendingResponseHasBytes`); `start` and `stop` (`Lifecycle`); what requests
and responses contain (`HttpExchange`).
`epoll` is level-triggered, as the code registers it.

### Lifecycle

The process has a main thread (`main`), an event thread (`event`) and a pool, which
is the abstract `TaskPool` (`ThreadPool` is proved to implement it) with the
`shutdown_` flag beside it. Signals are handled on any thread: `frames` has for each
thread the stack of its calls of `stop`, and the thread goes on only when its stack is
empty. `std::signal` (`main.cpp:48-49`) blocks a signal in the thread that runs its
handler and in no other. Linux gives a signal to the main thread if that does not block
it; so handlers of `SIGINT` and `SIGTERM` interrupt each other there, and a signal that is
repeated while the main thread handles it goes to the event thread or to a worker
(`MayHandle`). A client stands for the worker that has its task, and `Idle` for a worker
that has none, of which one at a time is interrupted (a bound). `stop` is taken apart
where two calls can interfere: the load and the store of `running_`, the test and the
store of `shutdown_`, the joins, the cleanup, the close and the reset of `server_fd_`. Who finds
`shutdown_` set goes on without waiting for the workers (`thread_pool.cpp:26`). A thread that
joins itself gets an exception, and two threads that join the same one may (`Throws`: it
ends the process unless the handler interrupted a task, whose exceptions are caught).
Handlers that come while `running_` is false and stays so do nothing and are left out.
`start` sets `running_`,
creates the thread and stores the pointer to it in three steps (`server.cpp:135-136`).
Of the event thread only what matters to `stop` is kept: the test of `running_`, the
batch of events, the accept loop, `enqueue`; a connection is open or not, in the map
or not, and sends at most one request. An exception that leaves a thread function,
and a `std::thread` destroyed while joinable, abort the process (`outcome`).

What the model shows beyond the runs' properties: a signal that comes before
`running_` is true is lost (`stop` does nothing); one that comes between
`server.cpp:135` and the assignment of `event_thread_` makes `stop` clean up beside
the running event thread and ends in `std::terminate` when the thread is destroyed
(`early` marks these behaviours, and `CleanupAlone` and `JoinedBeforeDestroyed` say
that nothing else leads there); while `accept` fails for want of descriptors
(`server.cpp:218`) the event thread is in a loop that does not test `running_`, and
`stop` waits for it: `accept` takes a descriptor before it looks at its queue, so with a
full table it fails with `EMFILE` whether or not a client is waiting. When a repeated
signal makes another thread than the main one find the server running in `stop`
(`astray` marks these behaviours), little is left of what `stop` promises. It cleans up
beside a busy worker, although "all threads are stopped" (`server.cpp:155`): `SIGINT`
interrupts `main`, and is repeated, on a worker, before the first handler has stored `running_`;
both calls pass the test of `running_`, one sets `shutdown_` and waits for the workers, and
the other skips that, joins the event thread and cleans up while another worker is in a
task. It may join its own thread, may close `server_fd_` a second time, and `main` may
return and destroy the event thread unjoined. Without the condition `~astray` TLC finds
each of `CleanupAlone`, `StopIsClean`, `ClosedOnce` and `JoinedBeforeDestroyed` violated on the
instance of `lifecycle_stop`; with it they say that nothing else goes wrong. Repeats on other
threads that come after the first store to `running_` meet the condition, and do no harm. The handler also uses `std::cout` and mutexes, which are not async-signal-safe: a
thread can wait for a mutex that it holds itself. That is not modelled, but no fairness is
assumed of what needs one on another thread than the main one.

### LRUCache and FileHandler

Every cache operation runs under one mutex and is one action. `recency` is a
history variable: all keys in the order of their last use. `put` has three
outcomes: `PutReplace` (the key is cached: replaced without eviction),
`PutInsert` and `PutTooLarge` (both after the eviction loop `EvictFor`, a
recursive function with one round per list element). The list iterator of a map
entry is the place of its key in the list (`NodeOf`): erasing a key that is not
there has no meaning, as in the code. `Sums` adds up sizes along the list.

`FileHandler` lets workers run `handle_file_request` one file-system or cache
operation at a time. A path is a sequence of names; `canonical` walks through the
tree as the operating system does, links and `..` included, and `is_safe_path` judges
the place it arrives at. The cache is keyed by the path as it is spelled, so that one
file can be cached under several keys. Contents are sequences of bytes: `read_file`
takes the size when it opens the file (`ReadOpen`) and reads that many bytes later
(`ReadContents`). In between the file may be replaced (the open file stays what it
was), rewritten in place (the worker reads the beginning of the new contents, or
fails when they are shorter) or removed. A directory is answered with its default
file (`Default`), which is read without being judged by `is_safe_path` once more
(`file_handler.cpp:39-52`): a default file that is a link leads anywhere, and
`ServedFromRoot` excepts the trees that have one (`DefaultsBelowRoot`).
`StalenessBound` needs a time to live: with `TTL = 0` entries never expire and
nothing bounds the age of an answer. `gone` records how many seconds ago a file
last held each contents. Of the two statements before the cache lookup that can see
a file vanish, `is_regular_file` answers 403 and `file_size` throws (500). A directory
listing is an answer or an error; its text is left out.

### Url and HttpExchange

`Url` works on character codes. `sscanf("%x")` is modelled by what it accepts: a sign,
and a single digit (`ScanMatches`), so `%-1` and `%4z` are escapes to this code.
In `HttpExchange` the wire carries one token for the request line, one for each header,
one for the blank line and one for each byte of the body, and is cut into pieces
anywhere between tokens. The parser sees the whole buffer; `size_t` is an integer
modulo `SizeMod`. When a body is longer than announced the rest of it stays in front of
the next request; such left-over bytes are taken not to form a blank line or a request
line of their own. Found by writing the properties down, and kept in them as
exceptions: a POST whose body contains CRLF, or begins or ends with a line end, loses
bytes in parsing and is refused (`PlainBody`); a HEAD request that is refused with 400
is answered with a body; a 400 answer follows the `keep_alive` of the request before
it; of two `Content-Length` headers the first decides when the request is whole and
the last whether it is valid; a path with a byte from 128 on is refused, `char` being
signed. A `Content-Length` near 2^64 makes the sum at `server.cpp:635` wrap, which hands
the request over too early and then has it refused.

### RateLimiter

Time is in ticks, `TicksPerMs` of them to a millisecond, because the truncation
to milliseconds matters; tokens are integers in the unit one request per second
adds in a millisecond. `since` and `passed` are an observer that starts counting
at any moment, which makes "in any stretch of time" an invariant. `waited` is how long
an address that was refused just now had waited since its call before. The truncation
makes a client that calls more than once a millisecond lose all refill, refused calls
included; what remains true of every client is `RefusedOnlyInHaste`.

## 4. Runs

| Run | Instance | Shows |
|---|---|---|
| `pool` | 2 workers, 2 producers, 3 tasks, one shutdown | `NoLostWakeup`, `TaskInOnePlace`, that the pool implements `TaskPool`, `ShutdownReturns`, `QueuedTaskStarts` |
| `server_single` | 1 client, 2 workers, 2 descriptors, a request in two pieces and one that closes | `StreamIsWhole`, `NoLockCycle`, `PendingWriteIsWatched`, `AnsweredOrClosed`, no deadlock |
| `server_reuse` | 2 clients (2 pipelined requests; one of 3 pieces, too large), 2 workers, 2 descriptors, 1 slot | `OneHandlerPerConnection`, `PendingResponseHasBytes`, `MapMatchesDescriptors`, `CloseIsExclusive`, `NoDescriptorLeak`, `ConnectionLimit` |
| `lifecycle_stop` | 2 clients, 2 descriptors, 2 signals from the start on, on any threads | `CleanupAlone`, `StopIsClean`, `ClosedOnce`, `JoinedBeforeDestroyed`, `SignalEnds` |
| `cache_api` | 4 keys, sizes 0, 1, 2, 4, limit 3, 2 s to live | map, list and size agree; `EvictsLeastRecentlyUsed` |
| `file` | 1 file under 2 keys, 3 contents, 2 workers, a link to a file outside | `StalenessBound`, `ServedFromRoot`, `OverrunBound` |
| `http_exchange` | about 1100 requests in 4 families, 2 on a connection | `HandedOverWhenWhole`, `PostVerdict`, `TargetSurvives`, `ClientInSync` |
| `rate` | 2 addresses, 12 ticks | `WindowBound`, `RefusedOnlyInHaste` |

Runs that are expected to fail, each a disagreement between the code and what the
repository says of it (quoted in `PROJECT.json`):

| Run | What TLC finds |
|---|---|
| `server_misdelivery` | the idle timeout closes a connection while its request is being answered; the next client gets the number; the worker finds the number in the map and sends it the other client's response |
| `server_lockcycle` | data arrives on a connection that a worker is closing: the worker holds the map and wants the connection, the event thread holds the connection and wants the map |
| `server_discard` | a client reads its response and sends its next request before the worker has cleared the buffer: the request is cleared too |
| `lifecycle_abort` | a signal shuts the pool down while the event thread handles a batch; the complete request in it makes `enqueue` throw out of the thread function |

All four depend on timing only: no client in `server_misdelivery`, `server_discard`
and `lifecycle_abort` does anything unusual. `StreamIsWhole` says that what a client
is sent is made of whole responses, one after the other, and that the one after `n - 1`
whole ones is for request `n`, or is the 400 for a request of which a part was discarded. It
is checked for clients that wait for each response (`Pipelining = FALSE`). With pipelining it fails:
`processing_request` is cleared while a response is only partly written, and the
next request's response replaces it (`server.cpp:387`). `PendingWriteIsWatched` is
checked without reuse of descriptor numbers; with it, a worker that has outlived its
connection can switch `EPOLLOUT` off for the connection that got its number.
The cache can exceed its limit (`cache.cpp:58-73` replaces without evicting);
`OverrunBound` says by how much, and TLC reaches the bound: one file size limit
(1 MB) for every worker but one.

**Bounds.** Two workers and two clients are what each of the interferences needs:
every rule above relates at most two threads or two connections, and one thread
more only repeats the roles. Responses of two units through a one-unit buffer
make partial writes; requests of two pieces make incomplete buffers;
`MaxRequestSize` is reached in `server_reuse`, the connection limit too. In
`server_reuse` TLC does not check for deadlock, because the
cycle of `server_lockcycle` is in reach there; `server_single` does check.
The thread pool may stop, once it is shut down, and so may the process and a
connection. `MaxTime` in `rate` is
longer than the expiry of a bucket and a refill after it. Two handlers (`MaxSignals`)
make one that is interrupted by the other, or one repeated on another thread; the main
thread can be in two at most, and a third that finds the server running is on another thread
(`astray`). Two clients with two descriptors make `accept` fail. In `lifecycle_abort`
signals begin when `start` has returned (`EarlySignals`), so that what it finds does not come
from earlier ones. `accept` fails with a full descriptor table in
`server_reuse` and `server_misdelivery`, where its loop spins until another thread closes
a descriptor; the runs with one client have a second descriptor, and their `accept` never
fails: `AnsweredOrClosed` is about a server that does not run out of descriptors. With a
full table the event thread serves nobody, whatever clients wait for
(`server.cpp:213-218`). In `file` two changes (`MaxChanges`) let a file change and change again between any two steps of a request,
one second to live and one second for a request let an entry expire and a request be
slow. The view of `file` leaves the history `recency` out, which nothing there reads.
The texts of `http_exchange` are those with at most two characters from all that mean
something to the parser; the bodies are all sequences of up to four bytes.

**Fairness.** The threads of the pool and the server are scheduled (weak fairness)
and a mutex does not pass over a waiting thread for ever (strong fairness): the
code holds no mutex while it waits for anything but another mutex, and a
preemptive scheduler and a futex do the rest. `AnsweredOrClosed` also needs time
to pass and a client that is still there to read; the code has no time limit for a
client that does not read (`server.cpp:538`); and a spare descriptor (above).
Nobody is obliged to submit tasks, call `shutdown`, connect, send or close. In
`lifecycle_stop` the main thread with its handlers, the event thread (`epoll_wait` returns after a second at the latest) and the
tasks of the workers go on; a handler on another thread goes on as far as its test of
`running_`, which is all it does unless `astray`. No fairness is assumed of `accept` finding a
descriptor, and `SignalEnds` has that exception, and the one of a stop on another thread.

## 5. Proofs

Every theorem holds for all values of the constants that satisfy the assumption named
with it. Each module but `ThreadPoolProofs` and `ServerStreamProofs`, whose theorems have invariants of
their own, has one invariant that is inductive (`IInv`, `FileInv`); it is proved action by action, and the theorems about the runs' properties follow from
it. The assumptions say no more than that kinds of things are disjoint, that limits and
sizes are numbers and that functions have their domains; where one says more, it is
explained. No theorem needs a bound on the number of clients, requests, descriptors,
keys or addresses.

**`ThreadPoolProofs`** (`PoolAssumption`: finitely many workers, at least one, and
finitely many producers, since the argument counts them).

* `TypeCorrect`: `Spec => []TypeOK`. Inductive with `JobWhenRunning`: a running
  worker and a pushing producer have a task.
* `NoWakeupIsLost`: `Spec => []NoLostWakeup`. Not inductive alone: in a state where
  a worker is about to sleep and a task is already queued, the sleep would break it.
  `LockDiscipline` (a worker between test and sleep owns the mutex, and nobody else
  keeps it) gives `TestStillTrue` (what it tested still holds), because a push and
  the store to `shutdown_` need the mutex; `ShutdownPhase` ties `shutdown_` to the
  progress of `shutdown`. These and `SleepersCalled` form `LockInv`, proved action
  by action (`LockStep`). `AttendStep` then counts: a push adds one task and one
  notifier, a notification replaces the notifier by a woken worker, a worker that
  starts a task takes both away, and one falls asleep only when no task is queued.
* `TaskStaysInOnePlace`: `Spec => []TaskInOnePlace`. Inductive with `FreeHands`: a
  thread that is neither handing a task over nor running one holds none, so nothing
  it takes up replaces a task. `AppendElements` and `TailElements` say what a push
  and a pop do to the set of queued tasks.
* `PoolImplementsTaskPool`: `Spec => Pool!Spec`, the abstract pool under the mapping
  of `Pool`. A push submits, a pop starts, the end of a task finishes, the end of
  the join stops, and every other step stutters. That nothing starts after the stop
  needs `JoinedAll`: every worker has exited when `shutdown` has returned.

**`ServerProofs`** (`ServerAssumption`; any sets of clients, workers and descriptors,
infinite ones too, pipelining or not). `TypeOK`, `MapMatchesDescriptors`,
`CloseIsExclusive`, `NoDescriptorLeak`, `ConnectionLimit`, `PendingResponseHasBytes` and
`OneHandlerPerConnection`. They hold each other up: that the map is right depends on
nobody closing a mapped descriptor, and that on the map being right, so they are
conjuncts of one invariant together with what each thread knows at each step:

* `LockInv`: who erases an entry has held the map since finding it; who arms or
  disarms `EPOLLOUT`, or closes an oversized connection, holds its mutex.
* `AcceptInv`, `DataInv`: what the event thread accepts on is unmapped and its own
  until it inserts; what it looked up and uses after the unlock is there or gone but
  not replaced, because only it inserts. A worker has no such guarantee about the
  number it looks up, and needs none for these properties (`server_misdelivery` shows
  where it would).
* `BirthInv`: a `Connection` is made once, before any thread works on it. Without it
  an `insert` could overwrite the fields of a connection in use.
* `LimitInv`: between the test of the limit and the insertion the map only shrinks.
* `HandlerInv`: a connection is at most once in the queue, on a worker or about to be
  queued, and `processing_request` is set wherever it is. `OneHandlerPerConnection`
  counts the same places and follows.

The invariant `IInv` is split over actions by the variables they touch: lemmas about
steps that leave the descriptors alone (`Quiet`), that change descriptors
(`DescriptorStep`), and that move connections between hands (`Motion`, `Arrival`).

**`ServerStreamProofs`** (`ServerAssumption`; any sets again). `PendingIsWatched`
(`PendingWriteIsWatched`), `StreamWhole` (`StreamIsWhole`) and `NoCycle` (`NoLockCycle`).
All three are false of some behaviours of the code, so the conditions
under which they hold are part of the theorems:

* `NumberKept`, of the behaviour, in all three: while a worker writes to a connection, arms
  or disarms it, or closes it, its descriptor number does not denote another client's
  socket. A worker looks the number up and uses it after the unlock, and nothing in the
  code prevents the reuse in between (`server_misdelivery` is such a behaviour); the
  theorems say that nothing *else* goes wrong. With one client, as in `server_single`, it
  always holds (`OneClient`), and `PendingIsWatchedAlone`, `StreamWholeAlone` and `NoCycleAlone`
  state the properties of `Spec` without it.
* `~Pipelining`, of the clients, in `StreamWhole` and `NoCycle`: a client waits for each
  response. Otherwise a half written response is replaced (`server.cpp:387`).
* `RequestScripts`, of what clients send, in the same two: requests are numbered in order,
  and begin and end where their units say. It makes precise what a script is; all scripts
  of `MCServer` satisfy it.
* `CloseIsLast`, in `NoCycle`: nothing is sent behind a request that asks to have the
  connection closed. `server_lockcycle` breaks this, with pipelining, and locks up. All other scripts of
  `MCServer` satisfy it (`ScriptAssumption`, evaluated in each of these runs).

The invariants, each inductive relative to `IInv` and the hypotheses:

* `EventNumber`: the number that the event thread writes to or receives from is its
  connection's; for a worker that is `NumberKept`. With `Written` (whoever is about to
  switch `EPOLLOUT` off has seen the response written whole) it gives `PendingIsWatched`.
* `StreamInv`. `StreamIsWhole` speaks of the last units written, and fails when a response is published
  over one that is half written. That it never is, is an argument of counting. A client starts
  request n when it has read n - 1 whole responses (`TurnInv`); units are in order from
  the client through the socket and the event thread to the buffer (`OrderInv`), so that the
  units of one request are emptied out of the buffer before the next is handled; and
  every unit on its way to a handler belongs to a request later than the responses
  published, until its own is (`AnswerInv`). So a worker with a request in its hands finds the
  response before it written to the last unit. The order of the responses follows from the
  same two bounds: what a worker has parsed stays in the buffer until it empties it
  (`ReplyInv`), so its number is above the responses that are whole and at most one more
  than those, and what is pending is for exactly that request (`TagInv`).
* `CycleInv`. A circle needs a thread that holds the map and waits for a connection whose mutex
  another thread holds while it waits for the map. `MutexInv` says who can hold a
  connection's mutex: a sender, or the event thread in `handle_client_data`, which waits
  for the map only when the buffer is too large (`oversize`). `GoneInv` excludes the
  worker that abandons a request, and the cleanup. What is left is a worker that closes
  the connection whose buffer the event thread has just filled. A worker closes only
  what is not kept alive, and `KeepInv` says why no data comes to such a connection: it
  is new and has had no response yet (`Virgin`: what comes first starts a request, so the handler will
  decide afresh), or its client has fallen silent (`Silent`: it has sent its last
  request, or waits for a response that failed to be sent).

TLC checked `StreamInv` and `CycleInv` on instances with one and two clients before they were
proved.

**`LifecycleProofs`** (`LifecycleAssumption`; any clients, signals, descriptors).
`TypeOK`, `CleanupAlone`, `StopIsClean`, `ClosedOnce`, `JoinedBeforeDestroyed`. `AnyInv` holds on
whichever threads `stop` runs: the types, and that the map holds exactly the open
descriptors. The rest of the invariant is about behaviours that are not `astray`, which
nothing in the code guarantees (section 3); the theorems say that nothing *else*
than a stop on another thread, and an early signal where they name it, breaks these
properties. `OtherInv`: handlers on other threads have yet to load `running_`. `FrameInv`: of
the nested calls of `stop` on the main thread only the innermost is past its store to
`running_`, so only one cleans up. `StageInv` ties `running_` to the listening socket and to
how far `main` has come; `StopInv` says what a call of `stop` has left behind at each of its
steps; `ThreadInv` says what is over once a thread is joined, and that a handler which finds
no thread to join, or leaves one, was `early`.

**`RateLimiterProofs`** (`RateAssumption`; any clock and rate). `TypeOK`, `WindowBound`,
`RefusedOnlyInHaste`. `WindowBound` speaks of requests passed since a moment, and is not
inductive: a state that satisfies it may have a full bucket besides. `CreditInv` adds
what is left in the bucket: requests passed and tokens left have come from one burst and
the rate up to the last refill, and a bucket untouched since that moment has let nothing
through in it. Forgetting a bucket loses its debts; `WindowBound` and `CreditInv` therefore carry
`RefilledBeforeExpiry`, an hour being enough to fill any bucket (with the defaults of
the code, 200 requests at 100 a second, two seconds are). `WholePart` and `TimesMonotone` are the
arithmetic of truncation.

**`LRUCacheProofs`** (`CacheAssumption`; any keys, contents, sizes and limits).
`CacheTypeOK`, `ListMatchesMap`, `ListIsLruOrder`, `SizeIsExact`, and the action property
`EvictsLeastRecentlyUsed`. The four invariants are inductive together with `HistoryInv`
(what is listed has been used): the size can only be adjusted exactly when the list has
each key once, and the order needs the list. Sizes are added up by a recursive function
and the eviction loop is another. Induction theorems with a predicate as a
parameter cannot be used, so the induction is over sets of numbers: the set of lengths
for which a statement holds contains 0 and is closed under successor (`UpTo`). It gives
the existence of the recursive functions (`Recursion`), the effect of erasing from and
pushing to a list on the sum of its sizes (`SumsErased`, `SumsCons`), and where the loop stops
(`EvictionLoop`): at the longest beginning of the list that leaves room.

**`FileHandlerProofs`** (`FileAssumption`: finitely many workers, at least one; contents
are sequences of bytes and what a read cuts off is one; a file may be cached when it is
smaller than `CacheFileLimit`, at least two bytes; `KeyAssumption`: what a request leads to has
a key). `HandlerUsesCache` shows that the steps of any number of requests are steps of
`LRUCache`, so its invariant holds here too. On that rest `FileTypeOK`, `StalenessBound`,
`ServedFromRoot` and `OverrunBound`:

* The age of an answer is not a matter of one state: contents are read by one worker,
  cached later and looked up by another. `WorkersInv`, `EntriesInv` and `DiskInv` say at each of
  these places how long ago at most the file began with these contents: what is open
  since `h` seconds was there `h` seconds ago, what is cached since `e` seconds was
  there at most `e + RequestSecs` ago.
* `ServedFromRoot`: whoever is past the test of the path has one that leads below the
  root (`Servable`), a default file excepted.
* `OverrunBound` bounds the size of the cache, which no single step keeps: `RoomInv` counts
  the workers that missed and will find an entry when they put theirs (`Behind`), each of
  which may add one file's growth. A worker comes to be behind only when another has
  inserted, which brings the size back below the limit; so at most all workers but
  one are.

**`HttpExchangeProofs`** (`ExchangeAssumption`: headers and bodies are sequences, a length
is a number or not). `TypeOK`, `HandedOverWhenWhole`, `ClientInSync`. A request is recognised by
searching the whole buffer; `CompleteWhenWhole` shows what the search finds in a piece of
a request. `ClientInSync` compares the response with the request that the client sent,
while the code looks at the buffer, in which bytes of an earlier request may come
first. `StreamInv` says what the buffer and the network hold together: some bytes, then
the whole of the request that is being answered; and only bytes once it is answered. So a buffer
that passes for valid begins with the right request line (`FirstToken`), and what is
not yet received when the buffer is emptied is never part of a next request's head
(`OnlyBytesFollow`).

**Only model-checked**, and why:

* `PostVerdict` and `TargetSurvives` of `HttpExchange`: they say what folds and recursive
  functions compute on texts, line by line and character by character.
* All liveness properties (`ShutdownReturns`, `QueuedTaskStarts`, `AnsweredOrClosed`, `SignalEnds`): liveness
  under fairness is outside what the prover handles.
* What the four runs that are expected to fail refute: `NoLockCycle` has a theorem under the
  conditions that its run breaks; `NoMisdelivery`, `NothingDiscarded` and `OrderlyExit` have none.

## 6. Not modelled

* The logger: nothing creates or calls one. (Its `init` holds `error_mutex_` when it
  logs through `log_error`, which locks it again.)
* Mutexes that a signal handler finds held by the thread it interrupts, signals handled on
  more than one idle worker at a time, and handlers that find the server not running.
* The reading of arguments in `main` and of the connection limit from the
  configuration file: `MaxConnections` and the number of workers are constants.
* Texts: status lines, dates, MIME types, error pages, listings, the status page. Dates
  are formatted in static storage that threads share (`file_handler.cpp:293`).
* Statistics counters, which are only printed, and `connections_.size()`, read for the
  status page without the mutex.
* Setters and `evict_expired`, which nothing calls; rounding of `double`.
* Links and directories that change while a request is served; files outside the
  document root that change.
* A client that stops reading: a connection with a pending write is never timed out
  (`server.cpp:538`), so its slot is kept; the liveness run assumes that clients read.
