# SocketChatServer in TLA+

A verification project for the chat server in `src/`: TLA+ modules translated
from the C source, TLC configurations that model-check them, and TLAPS proofs.

    cd tla
    tlc -config ThreadPoolSafety.cfg MCThreadPool.tla
    tlc -config ServerSafety.cfg MCServer.tla
    tlc -config HashMapSafety.cfg MCHashMap.tla
    tlapm ThreadPoolProofs.tla
    tlapm ThreadPoolPauseProofs.tla
    tlapm ServerProofs.tla
    tlapm ServerPoliteProofs.tla
    tlapm HashMapProofs.tla
    tlapm ProtocolQueueProofs.tla
    tlapm ClientProofs.tla

## The system

`server.c` is a chat server.  `main()` selects on the listening socket and on
every connection in the set `master`, adds one job per ready descriptor to a
thread pool, and calls `thpool_wait` before it selects again.  The jobs do
everything else, and add further jobs: a message is received by one job,
dispatched by a second and carried out by a third.

| part | state | operations | talks to |
|---|---|---|---|
| thread pool (`thpool.c`) | job list, binary semaphore, counts of alive and working threads, `threads_keepalive`, three mutexes, two condition variables | `thpool_init`, `thpool_add_work`, `thpool_wait`, `thpool_destroy`, `thread_do`, `thpool_pause`, `thpool_resume` | runs the jobs of the server |
| main loop (`server.c`) | `master`, `readfds`, `fdmax`, `listener` | select, scan, drain of `protocol_queue`, `thpool_wait` | adds jobs, reads the sets the jobs change |
| job handlers (`server.c`) | `client_map`, `hashmap_lock`, locals | `new_connection_handler`, `new_message_handler`, `new_protocol_handler`, `switch_protocol_handler` | add jobs, change the sets and the map, write to sockets |
| hash map (`hashmap.c`) | slots, size, table size | put, get, remove, iterate, rehash | holds the users, under `hashmap_lock` except in `new_protocol_handler` |
| protocol queue (`queue.c`) | linked nodes, size | enqueue, dequeue, peek | filled by jobs, drained by main |
| parser (`parser.c`) | none | `interpret` | called by server and client |
| client (`client.c`) | socket, options of its user | requests 00 to 08, a reading thread | sockets |

What is hard here: ten workers and `main()` share the descriptor sets without a
lock; descriptor numbers are stored in jobs and in the map and reused by the
kernel; a connection can end at any moment; the pool coordinates its workers
with a semaphore that remembers a single post; and `main()` waits for every job,
so one that blocks stops the server.

What makes each part correct:

- pool: no job is lost, duplicated or stranded; `thpool_wait` is a barrier and
  returns; `thpool_destroy` stops every worker and frees nothing in use.
- main loop and handlers: one job per connection at a time; a job never blocks;
  answers and closes hit the connection the message came from; a connection is
  watched from accept to close; the map holds the connected users, each once;
  messages keep their order and reach the user they name.
- hash map: behaves as a function from names to elements, for any hash.
- queue: what is enqueued is dequeued once, in order, and counted.
- parser: what the client formats is what the server reads.
- client: what the user enters does not take the server down, but for inputs
  that are empty or too long; what the server wrote is printed in order, with the
  line it calls for; a client whose name is taken ends.

`PROJECT.json` lists the components with their status, and every hazard with the
line where it bites and the properties that cover it.

## Modules

| module | models | uses |
|---|---|---|
| `JobPool` | what callers of the pool may rely on | |
| `ThreadPool` | `thpool.c` | `JobPool` (refinement) |
| `ThreadPoolPause` | `thpool_pause` and `thpool_resume` beside it | `ThreadPool` |
| `ThreadPoolProofs` | theorems about `ThreadPool` | `ThreadPool`, TLAPS |
| `ThreadPoolPauseProofs` | theorems about `ThreadPoolPause` | `ThreadPoolPause`, `ThreadPoolProofs` |
| `Server` | `server.c`, with `client.c` as its environment | `JobPool` |
| `ServerProofs` | theorems about `Server` | `Server`, TLAPS |
| `ServerPoliteProofs` | theorems about `Server` if clients leave with a 02 | `ServerProofs` |
| `NameMap` | what the server needs of `client_map` | |
| `HashMap` | `hashmap.c`, its callers with and without the lock | `NameMap` (refinement) |
| `HashMapProofs` | theorems about `HashMap` | `HashMap`, TLAPS |
| `ProtocolQueue` | `queue.c`, the jobs that fill it, the drain of `main()` | `JobPool` |
| `ProtocolQueueProofs` | theorems about `ProtocolQueue` | `ProtocolQueue`, TLAPS |
| `Parser` | `parser.c` | |
| `Client` | `client.c`, with the server's answers as its environment | `Parser` |
| `ClientProofs` | theorems about `Client` and `Parser` | `Client`, TLAPS |
| `MC...` | values for the constants of each, for TLC | |

`Server` and `ProtocolQueue` compose the contract `JobPool` with the handlers, in
place of `thpool.c`; `Client` composes both ends of the protocol with the parser
they share.  `Server` holds its users in a function from names to entries, which
is what `HashMap` is shown to implement under the lock.

### JobPool: the contract

`queue` holds the jobs in the order they were added, `running[w]` the job of
worker `w`, `caller` whether the user of the pool is inside `thpool_wait` or
`thpool_destroy`.  Jobs start in order, end, and may add jobs; `WaitReturns` is
enabled only when the queue is empty and nothing runs.  `Server` composes this
contract instead of `thpool.c`, which keeps it small enough to check; that this
is allowed is the theorem `Refinement`.

### ThreadPool: thpool.c

An action is a stretch of code between two points where another thread can act.

- Mutexes. `thcount_lock` and `rwmutex` are variables, held across steps where
  the code holds them (between linking a job and posting the semaphore, between
  the two reads of `thpool_wait`, while a worker leaves).  The mutex inside a
  `bsem` covers one test or assignment and is not a variable.
- Semaphore. `BsemPost` sets `v` and wakes any one sleeper; `BsemWait` takes `v`
  or goes to sleep; a woken worker tests `v` again, and another may have been
  first.  `SpuriousWakeup` wakes a sleeper without a post.
- Worker. `ThreadStart`, `LoopTest`, `BsemWait`, `TokenTest` (the second test of
  `threads_keepalive`), `CountUp`, `Pull`, `Repost` (a worker that left jobs
  behind posts again), `JobReturns`, `CountDown` (signals
  `threads_all_idle` at zero), `Leave`, `Unlock`.
- Callers. `AddWork` and `PushPost` by `main()` or by a job; `WaitCall`,
  `WaitLock`, `WaitReadLen`, `WaitReadWorking`; `DestroyCall`, `DestroyPoll`
  (both polling loops), `ClearJob`, `DestroyFree`.

Properties: `NoStrandedJob`, `NoLostWakeup`, `JobsConserved`, `NoJobAfterFree`;
`WaitIsBarrier` and the refinement `PoolSpec`; `JobsRun`, `WaitEnds` and
`DestroyEnds` under fairness.

### ThreadPoolPause: the signal handler

`Pause` makes a signal pending for every worker; `Hold` and `Release` are the two
ends of `thread_hold`, and a worker takes no step of `ThreadPool` between them.
`Hold` is enabled wherever the worker is, also while it holds `rwmutex` or
`thcount_lock` or has taken the semaphore.  `on_hold` is the shared flag: each
handler that begins raises it, `Resume` lowers it, so a signal that is delivered
after `Resume` holds the workers again.  `JobsRunUnlessHeld`,
`WaitEndsUnlessHeld` and `DestroyEndsUnlessHeld` say that a pause loses nothing
if the workers are let go in the end; `ResumeReleases` says when
`thpool_resume` lets them go: when no signal is pending.  About a signal that is
delivered late it says nothing; the model has those steps, and no property denies
that they hold the workers again.  Without the premise the three fail: `main()` may call
`thpool_wait` on a paused pool, or block on `rwmutex` in `thpool_add_work` while
its owner is held, and only `main()` could resume.

### Server: server.c

The jobs of the pool are records `[run, fd, p]` named after the handlers.

- `main()`: `Select`, `Scan` (one descriptor per step, while the jobs of those
  before already run), `WaitCall`, `WaitReturns`; `SelectFails` is EBADF, upon
  which `main` returns 6.
- `FD_SET` and `FD_CLR` on `master` are two steps, `ReadMaster` and `SetMaster`
  or `ClearMaster`, because other workers change the same word in between.
- `new_connection_handler`: `Accept` (the lowest free descriptor, or failure),
  `ReadMaster`, `SetMaster`, `SetFdmax`.
- `new_message_handler`: `RecvMessage`, `RecvEnd` (close, then clear), `RecvFails`.
- `new_protocol_handler`: `Dispatch`, which reads the map without the lock.
- `switch_protocol_handler`: one action per message, atomic because it runs under
  `hashmap_lock`: `Register` (00), `ChangeStatus` (03), `UserInfo` (04),
  `Deliver` (08).  `Release` (02) keeps the lock over `ReadMaster`,
  `ClearMaster` and `CloseClient`; `ListUsers` (06) answers after the unlock, in
  `AnswerList`.
- Kernel and clients: `Connect`, `Send` and `Die` follow `client.c`; a client
  that goes leaves `fin` or `rst` behind, and `Write` tells apart writes to an
  open, a closed and a reset connection.  SIGPIPE kills the server.

Abstractions.  A message is one frame: the client writes frames of 1024 bytes
and a `recv` returns one of them (how the client reads what the server writes is
the module `Client`).  Writes to a connected client do not
block.  Names are at most 24 bytes.  `new_protocol_handler` casts the map element
to `client` (server.c:370) and reads its `fd` out of the bytes of the name that
is stored there; for short names those bytes are zero, descriptor 0 is never in
`readfds`, and `protocol_queue` stays empty.  What happens otherwise is the
module `ProtocolQueue`.  The clears of `readfds`, a data
race, only touch bits that `main()` has scanned and are one step.

`MasterExact` bounds the damage of the race on `master`: the history variable
`lost` is set when a worker writes back a word that another has changed since,
or when a descriptor is accepted between its close and its `FD_CLR`; as long as
neither has happened, `master` is exactly the set of the open connections.

### HashMap: hashmap.c

`heap` holds the arrays of slots, `data` the current one, so that a reader can be
left with an array that was freed.  The holder of `hashmap_lock` calls put as 00
does (after a get that found nothing) and remove as 02 does.  Every assignment to
a field another thread can read is a step: `PutData`, `PutKey`, `PutInUse`,
`PutCount`; `RemoveInUse`, `RemoveData`, `RemoveKey`, `RemoveCount`; `RehashData`,
`RehashSize`, `RehashReset`.  `stack` holds the nested calls of `hashmap_put`,
since a rehash moves each element with a put, which may rehash again.
`hashmap_hash` and the searches under the lock are single steps
(`HashmapHash`, `Lookup`).

A reader is `new_protocol_handler`: `GetHash` reads `table_size`, every access to a
slot reads `m->data` first (`GetLoad`), and `GetCrash` is the use of a null
pointer or of freed memory.

`MapImplemented` maps the slots, and during a rehash what is left in the old
arrays, to the dictionary of `NameMap`; a put takes effect at the write of
`in_use`.  `Found` and `Listed` relate what get, length and iterate return to
that dictionary; `PutEnds` says that the rehashes come to an end; `InBounds` is
about the order of `RehashData` and `RehashSize`.

The hash is a constant, an arbitrary function of the names: the crc32 and its
mixing are data.  It must tell names apart well enough that the table stops
growing; more than eight names with one crc32 would not.  `calloc` does not fail.

### ProtocolQueue: queue.c

Nodes are memory that `Enqueue` allocates and `FreeOld` frees, with links that are
`Wild` until they are set.  The fields of `enqueue` and `dequeue` are written one
per step (`TestFront`, `TestBack`, `FirstFront`, `FirstBack`, `LinkPrev`,
`LinkNext`, `SetBack`, `EnqueueRead`, `EnqueueWrite`; `DequeueTest`, `Unlink`,
`FreeOld`, `DequeueRead`, `DequeueWrite`), so workers and `main()` interleave
inside them.  `Fault` is the use of memory that is not allocated.  Whether
`new_protocol_handler` enqueues a message or hands it on depends on bytes of a
name (see above) and is left open (`Enqueue`, `HandOn`).

`enqueue` is not safe beside itself, nor are the updates of `size`: the history
variable `raced` is set by either.  Until then `Ordered` holds, although the drain
runs beside an `enqueue`; the reason is `Counted`: the first message is not
counted, so the drain stops before it could take the back from under a worker.
`LastWaits` is the price: a message stays behind until the next one comes.  Of
enqueues that overlap `Ordered` says nothing: they do lose messages.

### Parser and Client

A text is the sequence of its nonempty fields, which is what `strtok_r` makes of
it.  `Members` lists the members of `struct protocol` that a text fills, by its
second character, and `Interpret` returns them with the field of the same place;
`Empty` for a text without a known digit, `Crash` where the code passes a null
pointer to `strcpy`.  `strcpy` does not ask for the size of an array either:
`Long[x]` are the fields that do not fit the array of the member `x`.  Such a
member reads as `Spoilt` (`Copied`), a value about which nothing is assumed but
that it does not fit; so does the `puerto` behind a long `status` (`Filling`),
while the other neighbours are filled later.  `Overrun` is a field that was
written behind the last array of the struct, or behind those on the stack.

`Client` has the two threads of `client.c` (`Register`, `CreateReader`, `Choose`,
`Quit`, `CloseSocket`, `Exit`, `Leave`; `ReadOne`, `ReadTwo`, `ReadEnd`,
`ReadFails`) and, as its environment, what the server writes to one connection
(`Serve` for its own requests, `Forward` for the messages of others).

- Requests.  `Format` is the `snprintf` of each; an input that is `Big` fills the
  frame of 1024 bytes, and what would follow it is cut (`Before`).  `Request`
  ends the process, by `alert` or by SIGPIPE, if the server has closed the
  connection.
- The server.  `Interpret` may crash on a request (`Serve`); a field that
  overruns the heap, as the last member of the protocol or in the list that
  `concat_clients` builds (`TooMuch`), takes the server down at any later moment
  or never (`Abort`).
- Answers.  `Wire` is the text of each, an 07 with all users of the map.  Those
  other than 05 are written without padding: `ReadTwo` returns two of them
  joined, or one and the first bytes of a 05, whose zeros the next read returns.
  `buffer_reader` is not set before the first read (`fresh`), so an answer that
  is not padded may be followed by `Garbage`.
- What is printed.  `shown` holds, for each answer that was read, the text as
  it was received and the line below it: the address and status of a 05, that an
  01 or 07 came, or nothing.  `sent` holds what the server told, so the two can
  be compared.  `CreateReader` leaves open what the unset `opcion` holds.

`ReadAsMeant` compares what the server understood with what the user meant, for
inputs without separators that fit the frame and the arrays.  `DownByInput` lists
what a user can enter that takes the server down: an empty input, one that is too
long, and a name that is too long; a plain request never does.  `ToldInOrder`
compares `shown` with `sent`: an answer that was read alone is printed as it was
written, whatever it is, and if `sreader()` can read it (`Readable`), with its
line; whatever answers are read together, no line is printed but that of an
answer, so that a text of another user never passes for an 01, 05 or 07; and
`sreader()` crashes only at the end of the connection or on an answer that it
cannot read or did not read alone.  The list of an 07 is in the text that is
printed, and not in the line: `sreader()` prints "07" there and nothing of the
list.

Abstractions: a read returns at most two answers, and splits only frames; the
text of a user has two characters or more; the name of a user leaves room for the
other fields of a frame; a field that holds the separator is modelled as the
fields it becomes; the list of an 07 fits the frame.

## Runs

Every run of TLC is exhaustive.

| run | shows |
|---|---|
| `pool_safety` | the safety properties of the pool, the inductive invariant of its proofs, the barrier, and that `thpool.c` implements `JobPool` |
| `pool_live` | jobs run, `thpool_wait` and `thpool_destroy` return, with a pause at any moment; resume releases |
| `pool_free` (violation) | the pool is freed while the last worker holds a mutex inside it |
| `server_safety` | one job per descriptor, own descriptor, no blocking job, order; `master` is exact unless an update was lost; the inductive invariant of the proofs |
| `server_live` | `fdmax` covers `master` while descriptors are reused; rounds end, what clients send is received, the backlog is served once a descriptor is free |
| `server_polite` | if clients end with 02 only, messages reach the user they name and lists hold connected users |
| `server_watched` (violation) | an accepted connection is lost from `master` |
| `server_listed` (violation) | a user who died stays in the list |
| `hashmap` | the map implements a dictionary through nested rehashes, finds, counts and lists its names; the unlocked reader stays inside its array; the inductive invariant of the proofs |
| `hashmap_race` (violation) | the unlocked reader uses a slot that is being blanked |
| `queue` | without overlapping enqueues messages leave once and in order; the last one waits; the inductive invariant of the proofs |
| `client` | requests are read as meant, only empty and too long inputs take the server down, answers are printed in order and as they were written, a client whose name is taken ends; the inductive invariant of the proofs |

Bounds.

- Pool: three workers and four jobs, any of them added by another
  job, two spurious wakeups.  Three workers and more jobs than workers are what
  stranding needs: a sleeper, a worker about to sleep and one that takes the
  semaphore first.  The proofs have no bound.
- Pause: two workers, two jobs, one pause, one spurious wakeup: a pause that cuts
  into a push, a pull, a count or a sleep, and signals that are delivered before
  and after the resume.
- Server: two workers, since the races are between two jobs; two clients that
  connect once and send two messages each (00 and one more), so that one dies or
  leaves while the other connects, and its descriptor is reused.  `MaxFd` 5
  gives each client a descriptor.  In `server_safety` both have one name, so that
  registrations compete.  `server_live` has a third connection, without
  which no descriptor below `fdmax` is reused, and the three compete for two
  descriptors; two send, the third may die.
  `MaxSent` bounds `Send`; nothing else is counted.  `Actions` selects which
  messages a run is about.  The safety runs are symmetric in the workers;
  those of `FairSpec` do without symmetry.
- HashMap: a table of 4 with chains of 2 and four names, whose hashes make the
  third name fill the half of the table, two chains collide in a table of 8, and
  one again in a table of 16 while its names are being moved: a rehash inside a
  rehash.  One name can be put with either of two elements.  One reader.
- ProtocolQueue: two workers (two enqueues overlap), three messages and four
  calls of `enqueue`: enough to leave one message behind, drain others, enqueue a
  drained one again and reuse a freed node.  Workers and messages are symmetric.
- Client: two choices (one may be the 02), two answers, inputs that are
  plain, empty or fill the frame, texts that do and do not look like a message,
  a status that fits its array and one that does not, lists of no and of two
  users, and a buffer that may hold four fields.  Two answers are what joining
  needs; an 03 and an 08 have every kind of overrun but that of the user's name.
  The run has 97,233 states.  Inputs with a separator are left to the proofs,
  which have no bound.

Fairness.  `FairSpec` of either module assumes weak fairness of `main()`'s steps
inside the pool or the main loop and of each worker's steps: the scheduler runs a
thread that stays able to run, and jobs return.  Mutexes are held for a bounded
time and in bounded runs of `ThreadPool` (`MaxJobs`) contention for them ends, so
weak fairness is enough.  No caller has to call the pool, no client has to do
anything, and no spurious wakeup has to happen.  `FairPauseSpec` adds that a
pending signal is delivered and that `thread_hold` looks at its flag again, not
that anyone resumes.  `HashMap` runs the worker that holds the lock, `Client` its
two threads; users and the server need not act.

`Rest` in `Server` lets the process stay ended, and `main()` sleep in `select`
when nothing is readable; any other state without a successor is a deadlock, and
the runs look for them.

## Where code and documents disagree

1. `thpool_destroy` may free the pool under the last worker's
   `pthread_mutex_unlock` (thpool.c:241 and 381; `thpool.h` promises that it
   waits for the threads to finish).
2. Updates of `master` race (server.c:94, 221, 423), and the end of file path
   closes a descriptor before it clears it (421, 423): an accepted connection
   can be missing from the set and is never served.
3. The end of file path leaves the user in `client_map` (server.c:419-426), so
   the list of connected users names users who are gone.
4. Such an entry keeps its descriptor, and a message to its user goes to the
   client that has the number now (server.c:328).  The run `server_listed` shows
   the entry; `ReachesTheNamed` is violated by the same behaviour once such
   clients are allowed.
5. `hashmap_get` without the lock (server.c:367) beside `hashmap_remove` uses a
   null key or element; `hashmap.h:56` says that it returns `MAP_OK` or
   `MAP_MISSING`.

No run is about two more: the entries of an 07 are written with `|`
(server.c:119) where `src/README.md:56` and parser.c:147 have `&`, so `interpret`
reads the first user only, which nobody notices because the client prints the
text of the answer and nothing of what it read; and work cannot always be added while a pool is paused
(thpool.h:107), since a held worker may own `rwmutex`.

The polite run shows that 3 and 4 need a client that ends without a 02; the
theorems of `ServerPoliteProofs` say so for any number of clients.

## Proofs

Each proof module takes the component's module as it is, for every value of its
constants, and has the same shape.  The properties are not inductive alone, so
there is an invariant `IInv` that is, a conjunction of named parts stated at the
end of the component's module; TLC checks it in a run on a small instance.  Each
part has a lemma of its own (`...Step`) with one step per action that can
disturb it; `NextInv` combines them, `Invariance` is `Spec => []IInv`, and the
properties follow from it.  Where an argument counts, it goes through
cardinalities; where it would need induction over the length of a sequence, it
takes a least counterexample instead (`Least`).

### ThreadPool

From `PoolAssumption` (a finite, nonempty set of workers, distinct from the other
constants), for every number of workers, jobs and spurious wakeups:

| theorem | statement |
|---|---|
| `TypeCorrect` | `Spec => []TypeOK` |
| `NeverStranded` | `Spec => []NoStrandedJob` |
| `NeverLost` | `Spec => []NoLostWakeup` |
| `Conservation` | `Spec => []JobsConserved` |
| `FreedLast` | `Spec => []NoJobAfterFree` |
| `Barrier` | `Spec => WaitIsBarrier` |
| `Refinement` | `Spec => PoolSpec` |

`working >= 0`, for instance, needs that the count equals the number of
workers between `CountUp` and `CountDown`, which is a statement about a
cardinality; that no job is stranded needs who holds the queue's mutex between a
push and its post, and that a worker that pulled with jobs left is about to post
again; the barrier needs that, once `thpool_wait` saw an empty queue, only a job
whose worker is counted can fill it again.  The lemmas `PostEffect`,
`PushPostEffect`, `RepostEffect` and `PollEffect` say once what a post does to the
sleepers.  `Refinement` maps each action to a step of the contract or to a
stutter, using the invariant in the state before.

`ThreadPoolPauseProofs` shows that pausing adds no behaviour to the pool:
`PauseStep` maps each action of `ThreadPoolPause` to a step of `ThreadPool` or to a
stutter, hence `PauseOnlyDelays`, `PauseSpec => Spec`, and with it
`PausedInvariance` (`IInv`), `PausedBarrier` (`WaitIsBarrier`) and
`PausedRefinement` (`PoolSpec`), for every number of pauses and wherever a signal
interrupts a worker; `PauseTypes` is the type invariant of what the signals add.

### Server

From `ServerAssumption` and `JobAssumption`, for any workers, clients, names and
descriptors and any limit on the messages:

| theorem | statement |
|---|---|
| `TypeCorrect` | `Spec => []TypeOK` |
| `OneJobEach` | `Spec => []OneJobPerFd` |
| `AnswersHome` | `Spec => []OwnDescriptor` |
| `NoJobBlocks` | `Spec => []NeverBlocks` |
| `SelectCovers` | `Spec => []FdmaxCovers` |
| `OnlyLostUpdates` | `Spec => []MasterExact` |
| `DeliveredInOrder` | `Spec => []InOrder` |

- `PhaseInv`: `main()` calls `select` only while no job exists.
- `ApartInv`, `ScanInv`, `ReadyInv`: no two jobs are about one descriptor.  A job
  is added by the job it follows, or by the scan for a descriptor that no job is
  about: the jobs are about descriptors below `i`.  What is left of `readfds` is
  still open and readable, because only a descriptor's own job closes it or reads
  from it.
- `ConnInv`, `AcceptInv`, `OwnInv`: a connection is in the backlog or on one
  descriptor, a descriptor that is being accepted is no job's business (but for
  one that closed it and has yet to clear it), and messages stay on the
  descriptor of their sender.
- `FdmaxInv`: every copy of `master` that a job has read stays below `fdmax`, or a
  job is about to raise `fdmax`, so an old word that is written back hides no
  descriptor.
- `MasterInv`: until an update is lost, `master` differs from the open
  connections by the jobs between a close, an accept or an `FD_CLR` and its other
  half.
- `OrderInv`: what was written comes before what a job carries, which comes before
  what waits in the socket.

`ServerPoliteProofs` assumes in addition `MayDie = {}`, clients that leave with a
02 only, and nothing about the names, which may be shared:

| theorem | statement |
|---|---|
| `PoliteInvariance` | `Spec => []PoliteInv` |
| `PoliteMessages` | `Spec => []ReachesTheNamed` |
| `PoliteLists` | `Spec => ListsConnected` |

`PoliteInv` is inductive together with `IInv`.  An entry of `client_map` holds the
descriptor its client is connected on (`EntryInv`).  A close could break that, so
`LeaveInv` says that a client that has gone, and has an entry or may still get
one, has a 02 under way, in its socket or in a job: the end of file is read only
after that 02 has taken the entry.  `HandlerInv` covers the rest of the 02,
between the removal and `close(fd)`; `MeantInv`, that a 02 names the entry of its
own client and no 00 comes after it.  `PoliteInv` is defined beside its proof; the
run `server_polite` checks what follows from it.

### HashMap

From `HashMapAssumption` (finitely many names, which have at most 24 bytes; any
hash; any size of the first table and any length of the chains from 1 on), for
any number of readers and however deep rehashes nest:

| theorem | statement |
|---|---|
| `TypeCorrect` | `Spec => []TypeOK` |
| `NeverOutOfBounds` | `Spec => []InBounds` |
| `AlwaysFound` | `Spec => []Found` |
| `EachListedOnce` | `Spec => []Listed` |
| `Implementation` | `Spec => MapImplemented` |

The names of the map are in the slots that are `Live`: in use in the current
array, or in an old array and not moved yet.  `LiveInv` says that each name is in
one of them, and that the name that is being put is in none; only the two writes
of `in_use` and the step of a rehash to its next slot change what is live
(`KeptStep`), and the last of them moves a name that was put again.  `ShapeInv`
relates the arrays, `table_size` and the stack of nested puts; `ChainInv` keeps a
name in its chain of slots, where the search finds it although removes leave holes,
because `Lookup` looks at the whole chain; `SizeInv` counts; `ReaderInv` keeps the
reader without the lock below `table_size`, which only grows, and never after the
array it goes with, because a rehash replaces the array before it doubles
`table_size`.  `Implementation` maps each step to a put or remove of `NameMap` or
to a stutter.

### ProtocolQueue

From `QueueAssumption`, for any finite set of workers and any number of messages
and calls:

| theorem | statement |
|---|---|
| `TypeCorrect` | `Spec => []TypeOK` |
| `InOrder` | `Spec => []Ordered` |
| `CountedRight` | `Spec => []Counted` |
| `LastOneWaits` | `Spec => LastWaits` |

`ListInv` holds until `raced`: one call of `enqueue` at a time, and the nodes from
`front` to `back` are a doubly linked list (`Linked`), or nothing was linked yet
(`Unused`).  `size` is one less than the length of the list, up to the call that
still has to count and the node that `main()` has taken and not counted yet; so the
drain, which looks at `size`, leaves a node, and never takes the `back` that
`enqueue` links to.  `LinkInv` holds what the call under way has tested and
written.  `CallsInv` bounds `size` also after a race.  `Chain`, with which the
properties are stated, follows the links from `front`; `ChainIs` shows that in a
linked list it ends at `back` and is the list.

### Client and Parser

From `ClientAssumption` and `ParserAssumption`, for any fields, inputs and numbers
of requests and answers:

| theorem | statement |
|---|---|
| `Invariance` | `Spec => []IInv` |
| `UnderstoodAsMeant` | `Spec => []ReadAsMeant` |
| `DownOnlyByInput` | `Spec => []DownByInput` |
| `AnswersInOrder` | `Spec => []ToldInOrder` |

The assumptions leave open which fields are too long and what an overrun member
reads as; they ask that the constants `client.c` sends fit their arrays, and that
a field with another text behind it does not fit `accion`.

- The lemmas `Read...` give what `interpret()` returns for each kind of text, and
  `RequestRead` for what the client formats.
- `RequestInv` says that the frames on their way are those of the last requests,
  and that the server has understood the others as `interpret()` reads them.
- `DownInv` says why the server is down: `interpret()` crashed there, or a request
  it has understood overran its heap.  `DownOnlyByInput` follows from both, since a
  request that does either has an input that is empty or too long.
- `AnswerInv` counts: the answers that wait are the last ones the server sent, as
  `Wire` writes them, but for the rest of a frame that was cut, which comes first
  and only after a read that joined.

### Only model-checked

- Liveness, under fairness: out of the prover's reach.  These are
  `JobsRunUnlessHeld`, `WaitEndsUnlessHeld`, `DestroyEndsUnlessHeld`,
  `ResumeReleases`, `RoundEnds`, `AllReceived`, `AllAccepted`, `PutEnds` and
  `TakenEnds`.
- That the rehashes of a put come to an end is part of `PutEnds`; it depends on
  how well the hash tells names apart, and no theorem assumes that it does.

Every invariant, action property and refinement that a passing run checks is
stated by a theorem.

## Not modelled

- Failing `malloc`, `calloc` and `pthread_create`, and the start-up failures of
  `main`, which end the process before anyone is served.
- Wording, logging and addresses; the global `remoteaddr` is only logged.
- A list of users that is longer than a frame, which takes many users: of what
  overruns `concat_clients`, only single fields that are too long.
- Reads of the client that cut an answer other than a 05, or return more than two;
  texts of one character.
- Partial reads of requests and writes that block: they depend on how the network
  splits a frame and on full socket buffers.
- `hashmap_free`, `queue_destroy` and the end of `main()`, which nothing reaches:
  the first is called when an allocation failed, the others follow an endless
  loop.
- `test_queue.c`, a script of calls without a check; they are among the calls of
  `ProtocolQueue`.

## Plan

What the model could still take in, in this order: frames that a `recv` cuts or
joins on the side of the server, writes that block on a full socket buffer, and
what else than `protocol_queue` a name above 24 bytes changes.
