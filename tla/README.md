# A verification project for Sekkeizu

Sekkeizu is a header-only C++ game-server core: a UDP network loop on
boost::asio, a tick loop on a fiber pool (np::fiber_pool), and a write-behind
layer over MongoDB. This directory holds TLA+ models of it, abstract
specifications of what its parts promise, the TLC configurations that check the
one against the other, and theorems that TLAPS proves. Line numbers below refer
to the files under `src/src/`:

    N  core/coreloop_network_plugin.hpp    T  database/transaction.hpp
    C  core/coreloop.hpp                   D  database/database.hpp
    P  memory/per_thread_pool.hpp          B  database/bson_reflection_struct.hpp
    S  core/coreloop_scheduled_tick.hpp    M  main.cpp

## Running it

    tlc -workers 2 -config NetworkPlugin.cfg NetworkPlugin
    tlapm NetworkPluginProofs.tla

The runs, with their module and configuration, are listed in `PROJECT.json`; the
longest take about three minutes on two cores. The eight
proof modules take from seconds to some minutes each from nothing.

## The system

| Component | Source | State | Operations |
| --- | --- | --- | --- |
| core loop | C | `_running`, `_must_join_during_stop`, the two pools, the io_context and its threads, `_stop_barrier`, two memory pools, the time of the last iteration and a running mean | `start`, `stop`, the main loop's fiber and its pacing, `handle_connections` and its completion handler, `release_network_buffer`, `release_network_endpoint`, `send_data` |
| memory pool | P | `_free_objects`, a thread-local boost::pool | `get`, `release` |
| network plugin | N | per network thread: `_local_mutex`, `_local_endpoints`, `_pending_inputs`; shared: `_endpoints`, `_new_endpoints`, `_endpoint_data`, `_pending_disconnects` | `handle_network_packet`, `tick`, `disconnect` |
| scheduled tick | S | the time since the last one | `tick` |
| user tick, tick profiling | `core/coreloop_*.hpp` | none | forward one call, emit events |
| transaction | T | per owner: a log per collection (`first_id`, `current_id`, `transactions`), `_since_last_execution`, `_pending_callables`, `_flagged`, `_scheduled` | `init`, `update`, `push_operation`, `push_callable`, `push_dependency`, `flag_deletion`, `unflag_deletion` |
| database | D | the driver's pool of clients, `_is_connected`, `_counter`, the cipher of the id generator | `init`, `execute`, `ensure_creation` |
| bson reflection | B, `core/fixed_string.hpp` | the reflected struct | loading a document: `check_and_store`, `check_and_store_string`, `check_and_recurse` |
| main program | M | none | composes the plugins: two network threads, two core threads, two database threads |

How they interact. A network thread completes a receive and runs its handler
(C 339-359): it passes the buffer and the endpoint to every plugin that wants
packets and arms the next receive. The network plugin pushes a fiber to the
core pool for each packet. The main loop is one fiber of that pool: in each
iteration it calls the plugins' `pre_tick`, `tick` and `post_tick`. The network
plugin's `tick` calls user code (`new_client`, `client_inputs`,
`on_disconnected`); user code calls `disconnect`, `release_network_buffer`, and
the transactions. `transaction::update` is called by user code once per tick and
owner, and hands batches to `database::execute`, which pushes them to the
database's own fiber pool, whose threads block in the driver.

What is hard about it, and what makes each part right:

* **network plugin** - packet fibers, `tick()` and user fibers interleave over
  maps guarded by three kinds of mutexes, some tests being made outside of
  them. A thread that remembers an endpoint the plugin has dropped strands all
  its later packets; a client must not be announced twice; no buffer may be
  delivered twice or vanish other than by a disconnect; nobody may block for
  good.
* **transaction** - the log promises order, at-most-once submission, waiting
  for dependencies and safe deletion, while batches of raw pointers into it are
  executed by other threads, and the object is used again.
* **core loop** - shutdown crosses three kinds of threads and a barrier, while
  handlers keep arming receives; buffers change hands between the kernel,
  network threads, core fibers and user code; the pace has to come back after a
  stall.
* **database** - a retry loop for unique ids that several threads run at once
  against a server that may refuse, break away, or answer too late.
* **bson reflection** - a document nobody controls is stored in members by name,
  with numeric conversions and one level of recursion.

The hazards in `PROJECT.json` list, line by line, what can go wrong and which
property would catch it, or why none does.

## The modules

| Module | Models | Together with |
| --- | --- | --- |
| `NetworkPlugin` | N: packet fibers, `tick()`, `client_inputs()`, `disconnect()` | `Sessions`, which it implements; `NetworkPluginProofs` |
| `Transaction` | T and `database::execute`: pushes, `update()`, the pool's threads, deletion, reuse | `OperationLog`, which it implements; `MCTransaction` (the collections); `TransactionProofs`, `SerialProofs` |
| `CoreLoop` | C 174-300 and 332-371, P: start, stop, main loop, receives, memory pools | `Lifecycle`, which it implements; `CoreLoopProofs` |
| `Server` | M: `CoreLoop` and `NetworkPlugin` composed, with user code and `send_data` (C 307) | instances of both; `ServerProofs` |
| `Database` | D 150-180 and 200-311: `ensure_creation`, its retries, the server and the connection | `DatabaseProofs` |
| `Pacing` | C 224-250 and S: the time an iteration takes, sleeps and reports | `PacingProofs` |
| `Reflection` | B 39-150: loading a document into a struct | `MCReflection` (the structs); `ReflectionProofs` |

`PROJECT.json`'s `map` ties every definition to its lines. The operators marked
"Mistake:" are not part of any specification: each is a plausible bug in the
action next to it, and shows that the property it is listed with in
`PROJECT.json` notices that bug. The three abstract specifications are
statements about the code, not translations of lines of it, and are not in
`map`.

### NetworkPlugin

Variables carry the names of the members. A packet fiber is a record that
remembers what it captured and how far it has come: `AppendKnown` (the endpoint
is in the thread's set), or `MissLocal`, `RegisterEndpoint` and
`InsertEndpoint` (N 211-227), with `_local_mutex` kept from the first to the
last. `tick()` is twelve steps, one wherever another fiber can see or be blocked
by what it did: the unlocked `empty()` tests, the section that creates clients,
one accumulation per network thread, the start and the end of the
`client_inputs()` fibers, and for each disconnect the erasure of the data, the
taking of all local mutexes one by one, the erasure from `_endpoints` and, thread
by thread, of the local maps. `_shared_mutex` is never kept while waiting, so a
section under it is one step.

The maps hold sets of buffers: the fibers of two packets of one client run
concurrently, so the order of the vectors means nothing. `clients`, `delivered`
and `lost` are history: what user code was told and given, and the buffers that
went away with an erased map entry.

User code disconnects clients it was told about, and each of them once unless
`RepeatDisconnect`. It does not call `disconnect()` from inside
`on_disconnected` (that waits for itself: `_disconnect_mutex` is held, N 189).

`Sessions` is what the plugin promises to user code, without threads, mutexes and
maps: an endpoint has a mailbox; a session is opened for a packet that waits;
packets are delivered in the session of the client that sent them, once; only a
client whose disconnect was asked for loses any; a session ends once. The
mapping (`Abstract` in `NetworkPlugin`) reads a packet's place: its fiber, a local
map and `_endpoint_data` are all "in the mailbox".

### Transaction

A log is a function from the ids below `current_id` to entries with their kind,
dependency, `pending` and `done`. `update()` takes a step for each collection it
asks whether it is done with, while the owner is flagged (T 157-170: `checked`
counts them), a step for the test of time and callables (T 183-189), and a step for
each collection that it scans, because the pool's threads, and pushes to other
collections, run in between. The scan of `get_pending_operations` is stated by where
it ends (`ScanEnds`: the first id at which it `Breaks`) and what it has collected by
then (`Taken`). A step either skips a collection that has nothing new, moves
`first_id` past dependencies that are met and leaves the loop (`NothingPending`: the
code's `break` at T 206, not `continue`), or sends a batch.

A batch is what the lambda captures: pointers, that is owner, collection, ids,
and the epoch of the object they point into. The database pool has `DbThreads`
threads that start batches and then block in the driver, so up to `DbThreads`
batches are executed at once. The server carries out the operations of an ordered
bulk one by one (`BulkApply`) and may stop before the last (`BulkMayFail`); then
each entry is flagged in two steps, `FlagDone` and `ClearPending`, the stores of
T 270 and T 271. For each entry of a batch of callables there are three steps
(`RunCallable`, `FlagDone`, `ClearPending`: T 288, T 289, T 290). `ids`, `left` and
`undone` of a batch say what of it is still to do.

The last store of a batch can come when the object was given to another user
already. What it hits then is undefined; `ClearPending` has it hit nothing or set
`pending` to false in any entry that there is, of whichever owner. The reads of a
batch whose entries are gone are not modelled: `OnlyLastStoreDangles` says that there
are none with one database thread. The other stores become visible one by one in
program order; a compiler that moves two of them together gives steps that the model
takes one directly after the other.

`Reinit` is `init()` for the next user of the object. `epoch` counts these and
is not in the code; it tells a stale pointer or id from a good one.

Assumptions about user code, none of which the code states: owners are updated
one after the other (`get_pending_operations` reads other owners' logs without a
lock); a push is not concurrent with a step of `update()` on the same
collection; nobody pushes to an owner that `update()` has reported as deletable, nor,
unless `UsedInCheck`, to one that `update()` is asking its collections about (see
below for what happens otherwise); a dependency names an
operation that was pushed, on the same collection key. Assumed of the fiber pool,
which is external: batches are started in the order they were pushed. The results
for one database thread rest on that. Document contents, selectors and `op_type` are
abstracted to "a write".

Pushes are bounded three times: by `MaxSlots` for each log, by `MaxEntries` for all
logs together, and by `Pushed`, which says what kinds of entries user code pushes to
which log.

`OperationLog` is what the transactions promise with one database thread: a log
is a queue whose operations are sent, executed and finished in the order they
were pushed, each executed once, and the log goes away only when all of it is
finished. The mapping reads "sent" off `first_id`, "finished" off `done`, and
leaves dependencies out of the log, which are nothing to execute. With two
threads the refinement does not hold: batches of one log then overlap (hazard
T 431), and the object goes away under a running batch (T 165).

### CoreLoop

`starter`, `stopper` and `main` are the places of `start()`, `stop()` and the
main loop's fiber. `join_pools` and the presence of a database are chosen in the
initial state. A chain of receives is the sequence of receives that
`handle_connections` keeps re-arming for one `unique_id`; any network thread may
run the handler of any chain. A memory pool is the number of objects that were
ever allocated, those in `_free_objects`, and those held by the plugins: `get()`
may return a free object or a new one although one is free, as `try_dequeue` can
fail when others are at work.

The stopper is a thread outside the pools, calls `stop()` once, and not before
`start()` has pushed the main loop (if `start()` does not join, after it has
returned). What happens when it is called earlier, twice, or from a core fiber is
listed under the hazards and not modelled yet. `np::fiber_pool` is external: its
`join()` is taken to return when `end()` was called and its threads have left.
Plugins release each object they were given at most once.

`Lifecycle` is what the core loop promises: it is down, up, ending, over; it ends
only when asked; packets are handed to plugins until it is over; whoever waits
returns after that, and under fairness does. The mapping takes the phase from the
places of the main loop and the pools; it is checked with its fairness, so the
abstract liveness is inherited.

### Server

The composition the main program runs. It has no actions of its own for the two
components; its steps are conjunctions of theirs. The completion handler's step
in `CoreLoop` and the push of a packet fiber in `NetworkPlugin` are one step; an
iteration of the main loop is one `tick()`; the fiber that leaves the plugin's
maps releases its endpoint object in a step of its own (N 232), at a time when
the buffer can be back in its pool and hold the next packet already; user code
releases a delivered buffer at once or gives it to `send_data` and releases it in
the callback, which a stopped io_context never runs. Fibers run until the core
pool's threads are joined, and the network threads go on handing packets to a
pool that was told to end (C 253), whose fibers may never run.

### Database

`ensure_creation` copies a document that is passed by reference and pushes the
request to the pool, if init() found a connection (debug builds drop it without
one, D 173). A thread draws an id, inserts, and on any error draws again (D 263).
Insert and answer are two steps, so that the connection can break in between: the
server has the document then and the thread does not know. The id generator is a
cipher over a counter and an initial vector; what a caller can tell is that any id
may come, and this is what `Draw` is. `Init` is the state `init()` leaves; the
server's collection, the connection and the driver are external.

### Pacing

Time is an integer number of clock units, `Unit` of them in one `base_time`; casts
drop the rest as `duration_cast` does. The mean is a float in the code and a
multiple of 1/`Grain` here, rounded either way at each update, which covers what
the float does. A tick takes any of `Works`, a sleep is late by any of `Jitters`.
`real` and `ticks` are history: the time and the iterations that the scheduled
tick's `_elapsed` stands for.

### Reflection

The state is the struct's members and whether asserts are compiled in; a step is the
visit of one element. Documents are not enumerated: the next element is chosen when
it is visited. Numbers are counted in halves, which is enough to tell a double's
fraction, and an int32 is less than `Int32Limit`, which stands for 2^31; a larger
whole number wraps around, and a double too large for it is undefined behaviour and
becomes anything. Elements of a type that the visitor has no callback for (null,
arrays, dates and so on, B 39-64) are passed over whatever their name is
(`PassOver`). Sub-documents nest once and may have any name: the first reflected
member takes every one (B 127-134), unless a debug build stops at the assert of a
member before it. `seen` is history. Strings that are not UTF-8 and damaged documents,
at which the driver stops, are left out.

`Loaded` says what that comes to. The members of the struct itself have the last value
for them that they can take, whatever else the document has; those of the inner struct
too, until an element comes of a sub-document that is not its own. From then on the
code does not do what its comment says: run `reflection_foreign`.

## The runs

| Run | Instance | Shows |
| --- | --- | --- |
| `network` | 2 threads, 2 endpoints, 3 packets, 2 pending disconnects, fair | maps agree, nothing stranded, no data erased with packets in it, the asserts of N 172 and N 225 hold, `Sessions` is implemented, packets arrive, disconnects complete |
| `network_repeat` | 1 endpoint, repeated `disconnect()` | **violation**: the assert of N 172 |
| `transaction_serial` | 2 owners that depend on each other, 1 collection, 3 entries of all kinds, one reuse, 1 database thread | `OperationLog` is implemented, nothing is sent twice, dependencies are waited for, deletion only when all is done, nothing but the last store of a batch outlives its log |
| `transaction_live` | 3 logs of 2 owners: writes, callables and dependencies in one, writes in a second one of the same owner, callables and dependencies in one of the other owner; 3 entries, 1 thread, an idle time of 2, a counter of 1 bit, fair | every operation is flagged as done in the end and a flagged owner is deleted, whatever waits for what across owners and collections; nothing from `first_id` on was sent, nothing before it is forgotten, the counter of callables is exact |
| `transaction_two_threads` | 2 threads | **violation**: deletable while a batch runs |
| `transaction_last_dependency` | a log that ends with a dependency | **violation**: never deleted |
| `coreloop` | 2 threads, 3 objects per pool, with and without `join_pools` and a database, fair | stop means stopped, memory has one user, nothing leaks, chains go on, `Lifecycle` is implemented with its fairness |
| `server` | 1 network thread, 1 client, 3 objects per pool, fair | buffers and endpoint objects have one user across both components, nothing reaches the plugin after the join, `stop()` returns whatever `tick()` waits for |
| `database` | 3 requests, 1 of them refused, 5 ids, 2 threads, 1 outage, fair | the id told names the document, documents are counted and destroyed once, every request that can be is answered |
| `pacing` | heart beat 5, casts that drop halves, ticks of 0, 1, 3 and 30 units | reported time is close to real time, scheduled ticks come, the pace recovers |
| `reflection` | 4 structs, every document of 3 elements, int32 of 3 bits, debug and release | every member has the last value for it that it can take, a debug build stops at one that does not fit |
| `reflection_foreign` | the same | **violation**: a sub-document of another name is loaded into the first reflected member |

### The bounds, and why they are enough

* `Endpoint`, `Buffer`, `MaxConcurrentThreads`: two network threads are what it
  takes for one to know an endpoint the other does not; two endpoints, for a
  disconnect to run while another client is served; with three packets an
  endpoint is registered, disconnected and registered again by a packet that was
  in flight, with one packet to spare for the other thread. No symmetry, as the
  run has liveness properties.
* `MaxPendingDisconnects` bounds the vector; each client is in it once, so with as
  many places as endpoints it excludes nothing unless `RepeatDisconnect`.
* `MaxSlots`, `MaxEntries`: three entries are a write, a dependency on it from the
  other owner and an operation behind that, or two batches and what is pushed
  while they are in flight, in any distribution. Mutual dependencies take two.
* `MaxEpoch` = 1: one reuse of an object.
* `ExecuteEvery` = 2 with `Diffs` = {1} in `transaction_serial` and
  `transaction_live`: both outcomes of the time test, and an `update()` that idles
  first. 1 elsewhere.
* `CounterModulus` is 256, the real width, which the runs stay below, except in
  `transaction_live`: there it is 2, so that two callables wrap the counter, and
  wait for the time test (T 184).
* `Pushed` is everything everywhere in `transaction_serial`. In `transaction_live`,
  where a temporal property costs a multiple of an invariant, it is what each question
  asks for: in one log a batch of writes follows one of callables or the other way
  round (the switch of kind, T 430-440), a second log is one that the `break` of
  T 206 leaves for another `update()`, and the log of the other owner is one to wait
  for and to be waited for by. That run has one database thread and bulks that do not
  fail: with two threads it takes longer than it is worth, as its invariants are
  proved for any number of threads and with bulks that fail. Its liveness properties
  are shown for one thread only.
* `MaxObjects` bounds what each memory pool allocates; two chains hold two
  objects, and the third is there for the plugins to hold, to be free, or to be
  handed to a chain again. In `server` one chain leaves two for the plugin and
  user code: one buffer in `tick()` and one on its way. The safety theorems cover
  every number. `RoomForPackets` delays a packet, not a failed receive, until every
  unarmed chain will find an object; the code would allocate instead.
* `Id`, `MaxOutages`: five ids are one for each request, one that an older document
  has, and one that a lost answer leaves behind. One outage is one lost answer
  for each of the requests in flight.
* `Works` in `pacing`: a tick shorter than the clock's grain, than a base_time,
  longer than one, and a stall of three heart beats. `Period` is two heart beats
  and a bit, so that it is passed in the third iteration. The state space closes
  without a bound on the number of iterations.
* `MCStructs` has every numeric type, strings, a member before and one behind the
  reflected member, two reflected members, none, and names used at both levels. With
  three elements a member is stored twice, or in two levels, or after the return from
  a sub-document. Three bits are enough for a wrap, a sign and an overflow.
* `server` has a `stop()` that joins; a `start()` that joins is in `coreloop` only.
* Deadlock is checked where the system always has something to do. It is off
  where the program, or the work it is given, ends.

### Fairness

* `NetworkPlugin`: weak fairness of `tick()` (the main loop calls it for ever), of
  every packet fiber and every `client_inputs()` fiber (the fiber pool resumes
  every runnable fiber). Packets and calls of `disconnect()` are not forced. Weak
  fairness suffices for the mutexes because `tick()` is the only competitor that
  takes one for long, and the packet fibers that could keep it waiting are finite
  in number.
* `Transaction`: every owner is updated again and again (strong fairness of the
  head of `update()`, as it is disabled while another owner's runs), an update goes
  on, the pool starts and executes batches. Pushes, flags, removals are not forced.
* `CoreLoop`: the starter, the main loop, the stopper once called, and the
  handlers of the network threads go on. Packets, releases and the call of
  `stop()` are not forced. `Lifecycle`'s own fairness, of its four steps other than
  packets and the request to stop, is implied by it, which the run checks.
* `Server`: the same for the starter, the stopper, the main loop with its ticks and
  the network threads; and the core pool runs *some* packet fiber and *some*
  `client_inputs()` fiber while there are any, less than it does. Packets, releases
  of buffers, sends, disconnects and the call of `stop()` are not forced.
* `Database`: the pool's threads go on. A thread that draws for ever draws a free
  id in the end: strong fairness of drawing one, for an id generator that takes no
  side. Nothing forces the connection to come back; `RequestsComplete` assumes that
  it does and stays.
* `Pacing`: the main loop goes on.

## What the violations say

Four times a statement made by a comment or an assert of the source does not hold of
the code; `PROJECT.json` quotes the lines under `findings`:

1. Disconnecting a client twice before `tick()` gets to it makes
   `assert(it != _endpoints.end())` fail (N 172); without asserts `end()` is erased.
2. With two database threads, which is what `main.cpp` configures, `update()` can
   report an owner as deletable while an earlier batch of it is running (T 165).
   With one thread it cannot while an operation is not done (`DeletedWhenDone`), if
   nobody pushes meanwhile; but see T 270 and T 157 below.
3. An owner whose log ends with a dependency is never deleted, because the entry
   of a dependency is never done (T 426). With an operation behind it, it is:
   `DeletionCompletesBehindOperations`.
4. A sub-document is loaded into the first reflected member, whatever its name is
   (B 132): one that the struct has no member for, one for a second reflected member,
   which is never loaded, and one for a plain member behind the first reflected one.
   The comment says that an element that is not in the struct is passed over (B 147).

Other limits of the code that the models have, and no run of its own, are listed
under `hazards`:

* a batch flags an entry with two stores, `done` and then `pending` (T 270-271,
  T 289-290), and `update()` asks for `done` only. With one database thread too, an
  owner can be reported as deletable between the two stores of its last entry, and its
  log cleared before the second one, which then writes to freed memory. That store is
  all a batch can have left to do: `OnlyLastStoreDangles`;
* `update()` asks its collections one after the other whether they are done (T 157).
  What is pushed to one of them after it was asked, while the next is, is not done when
  the owner is reported as deletable: with `UsedInCheck = TRUE` and two collections
  TLC finds `DeletedWhenDone` violated with one database thread too;
* after an object is used again, a dependency on an operation of its earlier user
  waits for the unrelated entry that has its id now (T 416). Nothing is sent too early
  because of that (`DependencyRespected`), but it can be late;
* a bulk that fails has all its entries flagged as done (T 265), which the source
  marks as a TODO (T 261);
* with two database threads a callable can run while writes pushed before it are
  pending, as the two are kept apart within a batch only (T 430);
* 256 callables between two updates leave the counter at 0 (T 365), which costs
  a delay until the time test passes;
* buffers of a client that leaves are erased without being released (N 183): the
  models call them `lost`, and the memory pool never gets them back;
* a document the server refuses keeps a database thread for ever (D 263); with as
  many as there are threads, nothing is executed any more. A lost answer leaves a
  second document behind (D 272), which `DocumentsCounted` counts;
* an element of a type without a callback is passed over without a sign of it, and in
  a release build so is one that does not fit its member;
* an iteration shorter than one `base_time` counts as none (C 243), so a scheduled
  tick reports up to one `base_time` less per iteration than has passed
  (`ReportedTimeIsClose` is exact about it), and carries nothing over (S 28).

## The proofs

TLAPS proves the following for all values of the constants, assuming only the
modules' `ConstantsAssumption` and what is said with each result. Every invariant
listed was checked with TLC first.

### The network plugin

`NetworkPluginProofs` proves `TypeOK`, `LocalMapsAgree`, `NoStrandedInput`,
`ErasedDataIsEmpty`, `OneOwner`, and, if no client is disconnected twice
(`~RepeatDisconnect`; otherwise the assert of N 172 fails, see above),
`DisconnectFindsEndpoint`, `SessionsAlternate`, `RegistriesAgree` and
`ImplementsSessions`. The inductive invariant grows by parts, each proved from the
ones before it:

* `TypeInv`: the types, with what keeps `tick()`'s index and heads in range.
* `LockInv`: which step holds which local mutex, and that a fiber between
  registering an endpoint and inserting it locally holds the mutex that `tick()`
  needs before it can erase the endpoint; this is why nothing is stranded.
* `DataInv`: a client whose `client_inputs()` fiber has finished has an empty
  vector, so a disconnect, which comes after all of them, erases none that is not.
* `OwnerInv`: every buffer is in one place, and within that place in one fiber, at
  one thread and for one endpoint. `OneOwner` follows; it alone is not inductive,
  as it does not say that two fibers never carry the same buffer.
* `SessionInv`: every client is registered until its disconnect passes it, pending
  disconnects name clients and none twice, and a new endpoint is not a client.
* `RefinementInv`: only clients have data, and an endpoint that waits to be
  announced has a packet that waits too and is not about to be cleared. Without the
  last, `new_client` would open a session that `Sessions` has no packet for.

The refinement is proved action by action: each packet fiber's step, each of the
twelve steps of `tick()`, `client_inputs()` and `disconnect()` is a step of
`Sessions` or leaves its variables alone.

### The transactions

`TransactionProofs` proves `TypeOK`, `Frontier` and `SubmittedOnce`, for any
owners, collections and numbers of threads, with failing bulks and reuse. The
inductive invariant `SubmitInv` adds to them that a batch in flight holds ids below
`first_id` of the log it was made from, or the log is gone for good (its epoch is
past): a scan starts at `first_id`, so what it collects is in no batch, and it
collects one kind only. Executing a batch touches its own entries, which are in no
other.

It proves two more results on top of `SubmitInv`:

* `NoneForgotten`: an entry behind `first_id` is a dependency, or done, or a batch
  in flight has still to flag it. The scan collects all that it passes (`ScanEnds`
  is the first id that breaks it), a batch that starts stays in flight, and a batch
  that leaves has flagged its entries. It assumes a connection, without which
  `execute()` drops the batch.
* `PendingCallablesExact`: the counter is the number of callables at or behind
  `first_id`, modulo its width. This needs counting: a push adds one to a finite
  set, a scan takes away exactly those it collects, and the modulus is compatible
  with both.

`SerialProofs` assumes one database thread (`DbThreads = 1`), with which batches run
one after the other in the order they were sent, and that user code leaves an owner
alone while `update()` asks its collections (`~UsedInCheck`); without the one or the
other `DeletedWhenDone` fails (the run `transaction_two_threads`, and T 157 above). It
proves:

* `DeletedWhenDone` and `OnlyLastStoreDangles`, also with bulks that fail and dropped
  batches. `PoolInv` says that one batch runs at most, the others of a log queue in
  the order of their ids, and of the batch that runs only the first entry can be
  flagged with a store to come (`FirstIsDone`). `SerialInv` draws from it that an
  entry is done only when all before it are (`DoneInOrder`), dependencies aside. Of
  the entries that were sent the code asks only the last whether it is done before it
  lets the object go (T 165), and this is what makes that enough: a log whose last
  entry is done is done with, but for the last store of its last batch (`Through`).
  `Checking` keeps this for the collections that `update()` has asked so far, `Idle`
  for owners that were given up. With two threads a later batch can be done first.
* `DependencyRespected` and `ImplementsLog`, which assume besides that the server
  carries out all of a bulk that is sent (`~BulkMayFail`): when a bulk fails all its
  entries are flagged as done (T 265), so "done" says nothing any more.
  `DependencyInv` has that what is done was carried out, what a batch has left was
  not, and every dependency in a log names an operation that was carried out or is in
  a log still. The refinement of `OperationLog` is proved action by action; the last
  store of a batch, wherever it hits, changes nothing that `OperationLog` has.

That no batch outlives its log at all is not claimed, as it does not hold (T 270).

### The core loop

`CoreLoopProofs` proves `TypeOK`, `MemoryIsOwned`, `NothingLeaks`,
`StopMeansStopped` and the safety of `ImplementsLifecycle` (`Abstract!Spec`), for
any number of network threads and objects. `BarrierUse` counts who is at the
barrier; `ChainInv` says that a chain is armed or has its handler run by one thread,
so arming never overwrites a receive; `MemoryInv` keeps the account of each memory
pool; `EndInv` ties the places of the three flows of control to what has been shut
down. The refinement adds `AskedToStop`: `_running` is false, once it was set, only
because `stop()` was called, which is why the core loop goes down only when asked.

### The server

`ServerProofs` proves `EndpointsOwned`, `BuffersOwned` and `QuietAfterJoin`, and that
the composition takes no step of the core loop that it would not take alone
(`CoreLoopUndisturbed`), so that the theorems of `CoreLoopProofs` hold of the server.
It takes the invariants of both components from their proof modules: every step of
the server is a step of `CoreLoop`, and is a step of `NetworkPlugin` or returns a
buffer, which keeps the plugin's invariants as well. What is left to prove is how
the two are linked: `EndpointsLinked` says where the endpoint object of each fiber
is, `BuffersLinked` that what the core loop handed out is what the plugin's
invariant accounts for. For `QuietAfterJoin`, `EndInv` gives that every network
thread has left before the main loop is over.

### Database and pacing

`DatabaseProofs` proves `TypeOK`, `ToldIdNamesDocument`, `DocumentsCounted` and
`DocumentOwned`. `IdDrawn` and `IdNamesDocument` follow the id of a round from the
draw to the answer; `Counted` relates the documents of a request to its answers that
were lost, for any number of them.

`PacingProofs` proves that the times that are kept are never negative (`update_time`,
an intermediate value, is at start-up), and `ReportedTimeIsClose`, for any
clock, heart beat, works and jitters: each iteration loses less than one base_time
by the cast, and the loss adds up over the iterations only.

### Reflection

`ReflectionProofs` proves `TypeOK` for any structs, documents and width of an int32:
every conversion ends in what the member can hold, also where it wraps around.
It proves `Loaded` for all documents, in both builds and with no assumption on the
sub-documents. `Stores` says what the visit of an element does to the members, `Asserts`
what follows when a debug build goes on; `ElementLoads` adds the element to those seen
and shows that it is the last one for the one member of its name that can take it,
and for no other. For a member of the inner struct this needs that the sub-document
is its own, which the premise of `Loaded` says of every element seen, the new one
included.

### Only model-checked

* Every liveness property, and the fairness part of `ImplementsLifecycle`: fairness
  and ENABLED are outside what TLAPS does here. Those of the transactions are checked
  with one database thread.
* Nothing is claimed of `DeletedWhenDone`, `OnlyLastStoreDangles`,
  `DependencyRespected` and `ImplementsLog` with several database threads, nor of the
  last two with bulks that fail.

None of the modules has a RECURSIVE operator, and nothing proved needs an induction
over data.

## Not modelled

* `database::init` (driver I/O) other than by its outcome, and the uninitialised
  `_is_connected` of the default-constructed database that M declares: what it
  reads as is either of the two outcomes the model starts from.
* `ensure_creation` with a callback that is not a named const one: it does not
  compile (D 205-239: `std::forward<C>` of a capture that is const in the lambda).
* What boost::asio does with concurrent operations on one socket (C 339), and
  hashes of different names that are equal (B 12).
* `fields()` (B 222), a constant that is filled at its first call without
  synchronisation; no code of the repository calls it. `serialize()` (B 233) does
  not compile for any member that is not itself reflected.
* The lifetime of the thread-local boost::pools behind the memory pools (P 24).
* `stop()` before `start()` is done, from a core fiber, and twice (C 289, C 298).
* Pushes that run at the same time as `update()` (T 304), and the move
  construction of transactions.
* The proxies of plugin hooks that no plugin of the repository has; the user tick
  other than by the time it takes; tick profiling, which keeps no state; build
  files and dependencies.

## Plan

Done: the models `NetworkPlugin`, `Transaction`, `CoreLoop`, `Server`, `Database`,
`Pacing` and `Reflection`; the abstract specifications `Sessions`, `OperationLog` and
`Lifecycle`, their refinement checked and its safety proved; every safety property
that a passing run checks, proved.

Next:

1. `CoreLoop`, extended: the thread an object was allocated by, and the end of
   its pool; `stop()` before `start()` is done, from a core fiber, and twice.
2. `Transaction`, finer: `current_id++` and the filling of the slot as two steps
   (T 304), concurrent with the scan.
