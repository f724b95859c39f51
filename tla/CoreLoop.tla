------------------------------ MODULE CoreLoop ------------------------------
(***************************************************************************)
(* core_loop: how the server starts, receives and stops.                   *)
(*                                                                         *)
(*   - The starter thread runs start(): it creates the network threads, arms*)
(*     one chain of receives per thread, starts the pools, and with        *)
(*     join_pools stays until they end.                                    *)
(*   - The main loop is a fiber of the core pool; when _running is false it*)
(*     ends the pools, stops the io_context and joins the network threads. *)
(*   - A network thread runs the completion handlers: a handler passes its *)
(*     packet on and arms the next receive of its chain. Any thread may run*)
(*     the handler of any chain.                                           *)
(*   - The stopper is another thread, that calls stop() once start() has   *)
(*     pushed the main loop.                                               *)
(*                                                                         *)
(* Buffers and endpoints come from two per_thread_pools; what the plugins do*)
(* with them until they release them is the business of NetworkPlugin.     *)
(***************************************************************************)
EXTENDS Integers, FiniteSets

CONSTANTS
    NetworkThreads,  \* _num_network_threads
    MaxObjects       \* bound on the objects allocated for each memory pool

ASSUME ConstantsAssumption ==
    /\ NetworkThreads \in Nat \ {0}
    /\ MaxObjects \in Nat
    /\ MaxObjects > NetworkThreads

\* The objects of a memory pool, in the order they are allocated.
Memory == 1 .. MaxObjects

VARIABLES
    join_pools,      \* start()'s argument
    with_database,   \* start()'s argument: is database not nullptr?
    starter,         \* where start() is
    stopper,         \* where stop() is
    main,            \* where the main loop's fiber is
    running,         \* _running
    must_join,       \* _must_join_during_stop: "unset" until start() sets it
    core_pool,       \* _core_pool: "new", "started", "ended"
    database_pool,   \* _database_pool
    arrived,         \* threads that have arrived at _stop_barrier
    stopped,         \* _context.stop() was called
    created,         \* network threads created, chains armed
    joined,          \* network threads joined
    thread,          \* what each network thread does: NoThread, Idle, Exited, or
                     \* the chain whose handler it runs
    receiving,       \* the buffer and the endpoint each chain receives into
    buffers,         \* _data_mempool
    endpoints        \* _endpoints_mempool

startVars  == <<join_pools, with_database>>
poolVars   == <<core_pool, database_pool>>
flagVars   == <<running, must_join>>
memoryVars == <<receiving, buffers, endpoints>>
vars == <<startVars, starter, stopper, main, flagVars, poolVars, arrived,
          stopped, created, joined, thread, memoryVars>>

\* A unique_id: the number of a chain, and of a network thread.
Chain == 0 .. NetworkThreads - 1

NoThread == -3
Idle     == -2
Exited   == -1

\* A per_thread_pool: how many objects were ever allocated, _free_objects, and
\* those the plugins have and did not release.
Pool == [allocated : 0 .. MaxObjects, free : SUBSET Memory, held : SUBSET Memory]

\* One type of every variable.
TypeOK ==
    /\ join_pools \in BOOLEAN
    /\ with_database \in BOOLEAN
    /\ starter \in {"network", "database", "running", "push", "join_core",
                    "join_database", "signal", "barrier", "returned"}
    /\ stopper \in {"idle", "join_core", "join_database", "signal", "barrier",
                    "returned"}
    /\ main \in {"none", "test", "iterate", "end_core", "end_database",
                 "stop_network", "join_network", "done"}
    /\ running \in BOOLEAN
    /\ must_join \in {"unset", "yes", "no"}
    /\ core_pool \in {"new", "started", "ended"}
    /\ database_pool \in {"new", "started", "ended"}
    /\ arrived \in 0 .. 2
    /\ stopped \in BOOLEAN
    /\ created \in 0 .. NetworkThreads
    /\ joined \in 0 .. NetworkThreads
    /\ thread \in [Chain -> {NoThread, Idle, Exited} \cup Chain]
    /\ receiving \in [Chain -> {<<>>} \cup Memory \X Memory]
    /\ buffers \in Pool
    /\ endpoints \in Pool

Init ==
    /\ join_pools \in BOOLEAN
    /\ with_database \in BOOLEAN
    /\ starter = "network"
    /\ stopper = "idle"
    /\ main = "none"
    /\ running = FALSE
    /\ must_join = "unset"
    /\ core_pool = "new"
    /\ database_pool = "new"
    /\ arrived = 0
    /\ stopped = FALSE
    /\ created = 0
    /\ joined = 0
    /\ thread = [i \in Chain |-> NoThread]
    /\ receiving = [i \in Chain |-> <<>>]
    /\ buffers = [allocated |-> 0, free |-> {}, held |-> {}]
    /\ endpoints = [allocated |-> 0, free |-> {}, held |-> {}]

----------------------------------------------------------------------------
(***************************************************************************)
(* Memory pools and receives.                                              *)
(***************************************************************************)

\* get(): an object somebody released, or a new one. Another thread may be
\* faster, so try_dequeue can fail although the queue was not empty.
Available(pool) ==
    pool.free \cup
        (IF pool.allocated < MaxObjects THEN {pool.allocated + 1} ELSE {})

Get(pool, m) ==
    [pool EXCEPT !.free = @ \ {m},
                 !.allocated = IF m > @ THEN m ELSE @]

\* release(): the object goes to the free ones.
Release(pool, m) == [pool EXCEPT !.free = @ \cup {m}, !.held = @ \ {m}]

Hand(pool, m) == [pool EXCEPT !.held = @ \cup {m}]

\* handle_connections: take a buffer and an endpoint, arm a receive of chain i.
HandleConnections(i) ==
    \E b \in Available(buffers), e \in Available(endpoints) :
        /\ buffers' = Get(buffers, b)
        /\ endpoints' = Get(endpoints, e)
        /\ receiving' = [receiving EXCEPT ![i] = <<b, e>>]

\* Thread t takes the completion of chain i's receive.
Completes(t, i) ==
    /\ thread[t] = Idle
    /\ receiving[i] # <<>>
    /\ ~stopped
    /\ thread' = [thread EXCEPT ![t] = i]
    /\ receiving' = [receiving EXCEPT ![i] = <<>>]

\* Bound: packets arrive while every chain that is not armed finds an object.
RoomForPackets ==
    \A pool \in {buffers, endpoints} :
        Cardinality(pool.free) + MaxObjects - pool.allocated >
            Cardinality({j \in Chain : receiving[j] = <<>>})

\* Mistake: the endpoint is released here, as well as by the plugin later.
PacketReceivedReleases(t, i) ==
    /\ RoomForPackets
    /\ Completes(t, i)
    /\ buffers' = Hand(buffers, receiving[i][1])
    /\ endpoints' = Hand(Release(endpoints, receiving[i][2]), receiving[i][2])
    /\ UNCHANGED <<startVars, starter, stopper, main, flagVars, poolVars,
                   arrived, stopped, created, joined>>

\* The receive succeeded: the plugins own the buffer and the endpoint.
PacketReceived(t, i) ==
    /\ RoomForPackets
    /\ Completes(t, i)
    /\ buffers' = Hand(buffers, receiving[i][1])
    /\ endpoints' = Hand(endpoints, receiving[i][2])
    /\ UNCHANGED <<startVars, starter, stopper, main, flagVars, poolVars,
                   arrived, stopped, created, joined>>

\* Mistake: the endpoint is forgotten at an error.
ReceiveFailedForgets(t, i) ==
    /\ Completes(t, i)
    /\ buffers' = Release(buffers, receiving[i][1])
    /\ endpoints' = endpoints
    /\ UNCHANGED <<startVars, starter, stopper, main, flagVars, poolVars,
                   arrived, stopped, created, joined>>

\* Mistake: the chain ends at an error.
ReceiveFailedGivesUp(t, i) ==
    /\ thread[t] = Idle
    /\ receiving[i] # <<>>
    /\ ~stopped
    /\ receiving' = [receiving EXCEPT ![i] = <<>>]
    /\ buffers' = Release(buffers, receiving[i][1])
    /\ endpoints' = Release(endpoints, receiving[i][2])
    /\ UNCHANGED <<startVars, starter, stopper, main, flagVars, poolVars,
                   arrived, stopped, created, joined, thread>>

\* The receive failed: both go back to their pools.
ReceiveFailed(t, i) ==
    /\ Completes(t, i)
    /\ buffers' = Release(buffers, receiving[i][1])
    /\ endpoints' = Release(endpoints, receiving[i][2])
    /\ UNCHANGED <<startVars, starter, stopper, main, flagVars, poolVars,
                   arrived, stopped, created, joined>>

\* The end of the handler: arm the next receive of the chain, also when the
\* io_context has been stopped meanwhile.
HandleAgain(t) ==
    /\ thread[t] \in Chain
    /\ HandleConnections(thread[t])
    /\ thread' = [thread EXCEPT ![t] = Idle]
    /\ UNCHANGED <<startVars, starter, stopper, main, flagVars, poolVars,
                   arrived, stopped, created, joined>>

\* _context.run() returns in a stopped context.
RunReturns(t) ==
    /\ thread[t] = Idle
    /\ stopped
    /\ thread' = [thread EXCEPT ![t] = Exited]
    /\ UNCHANGED <<startVars, starter, stopper, main, flagVars, poolVars,
                   arrived, stopped, created, joined, memoryVars>>

\* A plugin is done with a buffer, or with an endpoint.
ReleaseNetworkBuffer(b) ==
    /\ b \in buffers.held
    /\ buffers' = Release(buffers, b)
    /\ UNCHANGED <<startVars, starter, stopper, main, flagVars, poolVars,
                   arrived, stopped, created, joined, thread, receiving,
                   endpoints>>

ReleaseNetworkEndpoint(e) ==
    /\ e \in endpoints.held
    /\ endpoints' = Release(endpoints, e)
    /\ UNCHANGED <<startVars, starter, stopper, main, flagVars, poolVars,
                   arrived, stopped, created, joined, thread, receiving,
                   buffers>>

----------------------------------------------------------------------------
(***************************************************************************)
(* start().                                                                *)
(***************************************************************************)

\* One round of the loop: a network thread, and the first receive of a chain.
StartNetwork ==
    /\ starter = "network"
    /\ created < NetworkThreads
    /\ thread' = [thread EXCEPT ![created] = Idle]
    /\ HandleConnections(created)
    /\ created' = created + 1
    /\ UNCHANGED <<startVars, starter, stopper, main, flagVars, poolVars,
                   arrived, stopped, joined>>

StartDatabase ==
    /\ starter = "network"
    /\ created = NetworkThreads
    /\ database_pool' = IF with_database THEN "started" ELSE database_pool
    /\ starter' = "running"
    /\ UNCHANGED <<startVars, stopper, main, flagVars, core_pool, arrived,
                   stopped, created, joined, thread, memoryVars>>

\* _running = true, _must_join_during_stop, and the fiber of the main loop.
PushMainLoop ==
    /\ starter = "running"
    /\ running' = TRUE
    /\ must_join' = IF join_pools THEN "no" ELSE "yes"
    /\ main' = "test"
    /\ starter' = "push"
    /\ UNCHANGED <<startVars, stopper, poolVars, arrived, stopped, created,
                   joined, thread, memoryVars>>

\* _core_pool.start(): the pool's threads run its fibers. Without join_pools
\* start() returns.
StartCore ==
    /\ starter = "push"
    /\ core_pool' = "started"
    /\ starter' = IF join_pools THEN "join_core" ELSE "returned"
    /\ UNCHANGED <<startVars, stopper, main, flagVars, database_pool, arrived,
                   stopped, created, joined, thread, memoryVars>>

\* Mistake: nobody waits for the fibers of a pool that was told to end.
CoreJoinedEarly == core_pool = "ended"

\* join() of a pool returns when it was told to end and its threads have left
\* their fibers; a pool that was never started has no thread to wait for.
CoreJoined == core_pool = "ended" /\ main = "done"
DatabaseJoined == database_pool # "started"

StartJoinCore ==
    /\ starter = "join_core"
    /\ CoreJoined
    /\ starter' = "join_database"
    /\ UNCHANGED <<startVars, stopper, main, flagVars, poolVars, arrived,
                   stopped, created, joined, thread, memoryVars>>

\* Mistake: start() returns without signalling the end.
StartJoinDatabaseSilent ==
    /\ starter = "join_database"
    /\ DatabaseJoined
    /\ starter' = "returned"
    /\ UNCHANGED <<startVars, stopper, main, flagVars, poolVars, arrived,
                   stopped, created, joined, thread, memoryVars>>

StartJoinDatabase ==
    /\ starter = "join_database"
    /\ DatabaseJoined
    /\ starter' = "signal"
    /\ UNCHANGED <<startVars, stopper, main, flagVars, poolVars, arrived,
                   stopped, created, joined, thread, memoryVars>>

StartSignal ==
    /\ starter = "signal"
    /\ arrived' = arrived + 1
    /\ starter' = "barrier"
    /\ UNCHANGED <<startVars, stopper, main, flagVars, poolVars, stopped,
                   created, joined, thread, memoryVars>>

StartReturn ==
    /\ starter = "barrier"
    /\ arrived = 2
    /\ starter' = "returned"
    /\ UNCHANGED <<startVars, stopper, main, flagVars, poolVars, arrived,
                   stopped, created, joined, thread, memoryVars>>

----------------------------------------------------------------------------
(***************************************************************************)
(* The main loop's fiber.                                                  *)
(***************************************************************************)

MainTest ==
    /\ main = "test"
    /\ core_pool = "started"
    /\ main' = IF running THEN "iterate" ELSE "end_core"
    /\ UNCHANGED <<startVars, starter, stopper, flagVars, poolVars, arrived,
                   stopped, created, joined, thread, memoryVars>>

\* pre_tick, tick and post_tick of the plugins, and the sleep.
MainIterate ==
    /\ main = "iterate"
    /\ main' = "test"
    /\ UNCHANGED <<startVars, starter, stopper, flagVars, poolVars, arrived,
                   stopped, created, joined, thread, memoryVars>>

MainEndCore ==
    /\ main = "end_core"
    /\ core_pool' = "ended"
    /\ main' = "end_database"
    /\ UNCHANGED <<startVars, starter, stopper, flagVars, database_pool,
                   arrived, stopped, created, joined, thread, memoryVars>>

MainEndDatabase ==
    /\ main = "end_database"
    /\ database_pool' = "ended"
    /\ main' = "stop_network"
    /\ UNCHANGED <<startVars, starter, stopper, flagVars, core_pool, arrived,
                   stopped, created, joined, thread, memoryVars>>

\* _work.reset() and _context.stop().
MainStopNetwork ==
    /\ main = "stop_network"
    /\ stopped' = TRUE
    /\ main' = "join_network"
    /\ UNCHANGED <<startVars, starter, stopper, flagVars, poolVars, arrived,
                   created, joined, thread, memoryVars>>

\* Mistake: one join too many.
MainJoinNetworkPast ==
    /\ main = "join_network"
    /\ joined <= NetworkThreads
    /\ joined < NetworkThreads => thread[joined] = Exited
    /\ joined' = joined + 1
    /\ UNCHANGED <<startVars, starter, stopper, main, flagVars, poolVars,
                   arrived, stopped, created, thread, memoryVars>>

MainJoinNetwork ==
    /\ main = "join_network"
    /\ joined < NetworkThreads
    /\ thread[joined] = Exited
    /\ joined' = joined + 1
    /\ UNCHANGED <<startVars, starter, stopper, main, flagVars, poolVars,
                   arrived, stopped, created, thread, memoryVars>>

MainDone ==
    /\ main = "join_network"
    /\ joined = NetworkThreads
    /\ main' = "done"
    /\ UNCHANGED <<startVars, starter, stopper, flagVars, poolVars, arrived,
                   stopped, created, joined, thread, memoryVars>>

----------------------------------------------------------------------------
(***************************************************************************)
(* stop(), called once.                                                    *)
(***************************************************************************)

\* start() has set what stop() reads, and if it does not join it has returned.
StopCalled ==
    /\ stopper = "idle"
    /\ starter \in {"push", "join_core", "returned"}
    /\ ~join_pools => starter = "returned"
    /\ running' = FALSE
    /\ stopper' = IF must_join = "yes" THEN "join_core" ELSE "signal"
    /\ UNCHANGED <<startVars, starter, main, must_join, poolVars, arrived,
                   stopped, created, joined, thread, memoryVars>>

StopJoinCore ==
    /\ stopper = "join_core"
    /\ CoreJoined
    /\ stopper' = "join_database"
    /\ UNCHANGED <<startVars, starter, main, flagVars, poolVars, arrived,
                   stopped, created, joined, thread, memoryVars>>

StopJoinDatabase ==
    /\ stopper = "join_database"
    /\ DatabaseJoined
    /\ stopper' = "returned"
    /\ UNCHANGED <<startVars, starter, main, flagVars, poolVars, arrived,
                   stopped, created, joined, thread, memoryVars>>

StopSignal ==
    /\ stopper = "signal"
    /\ arrived' = arrived + 1
    /\ stopper' = "barrier"
    /\ UNCHANGED <<startVars, starter, main, flagVars, poolVars, stopped,
                   created, joined, thread, memoryVars>>

\* Mistake: nobody waits at the barrier.
StopReturnEarly ==
    /\ stopper = "barrier"
    /\ stopper' = "returned"
    /\ UNCHANGED <<startVars, starter, main, flagVars, poolVars, arrived,
                   stopped, created, joined, thread, memoryVars>>

StopReturn ==
    /\ stopper = "barrier"
    /\ arrived = 2
    /\ stopper' = "returned"
    /\ UNCHANGED <<startVars, starter, main, flagVars, poolVars, arrived,
                   stopped, created, joined, thread, memoryVars>>

----------------------------------------------------------------------------
Start ==
    \/ StartNetwork
    \/ StartDatabase
    \/ PushMainLoop
    \/ StartCore
    \/ StartJoinCore
    \/ StartJoinDatabase
    \/ StartSignal
    \/ StartReturn

MainLoop ==
    \/ MainTest
    \/ MainIterate
    \/ MainEndCore
    \/ MainEndDatabase
    \/ MainStopNetwork
    \/ MainJoinNetwork
    \/ MainDone

Stop ==
    \/ StopJoinCore
    \/ StopJoinDatabase
    \/ StopSignal
    \/ StopReturn

Receive(t) == \E i \in Chain : PacketReceived(t, i) \/ ReceiveFailed(t, i)

Next ==
    \/ Start
    \/ MainLoop
    \/ StopCalled
    \/ Stop
    \/ \E t \in Chain : Receive(t) \/ HandleAgain(t) \/ RunReturns(t)
    \/ \E m \in Memory : ReleaseNetworkBuffer(m) \/ ReleaseNetworkEndpoint(m)

\* Threads and the main loop's fiber run. Nothing obliges packets to arrive, the
\* plugins to release anything, or anybody to call stop().
Fairness ==
    /\ WF_vars(Start)
    /\ WF_vars(MainLoop)
    /\ WF_vars(Stop)
    /\ \A t \in Chain : WF_vars(HandleAgain(t)) /\ WF_vars(RunReturns(t))

Spec == Init /\ [][Next]_vars

FairSpec == Spec /\ Fairness

----------------------------------------------------------------------------
(***************************************************************************)
(* Properties.                                                             *)
(***************************************************************************)

\* When stop() returns, and when a start() that joins returns, nothing runs any
\* more: the main loop is over, every network thread has left io_context::run
\* and was joined, and both pools are down.
StopMeansStopped ==
    stopper = "returned" \/ (join_pools /\ starter = "returned") =>
        /\ CoreJoined
        /\ DatabaseJoined
        /\ joined = NetworkThreads
        /\ \A t \in Chain : thread[t] = Exited

\* What the armed receives write into: buffers for k = 1, endpoints for k = 2.
Written(k) == {receiving[i][k] : i \in {j \in Chain : receiving[j] # <<>>}}

\* An object has one user: no two chains receive into the same buffer or
\* endpoint, and the kernel writes neither into a free one, that the next get()
\* returns, nor into one a plugin is reading; none is free and in use.
MemoryIsOwned ==
    /\ \A i, j \in Chain : i # j /\ receiving[i] # <<>> /\ receiving[j] # <<>> =>
          receiving[i][1] # receiving[j][1] /\ receiving[i][2] # receiving[j][2]
    /\ Written(1) \cap (buffers.free \cup buffers.held) = {}
    /\ Written(2) \cap (endpoints.free \cup endpoints.held) = {}
    /\ buffers.free \cap buffers.held = {}
    /\ endpoints.free \cap endpoints.held = {}

\* The core loop loses no object: each that was ever allocated is free, being
\* received into, or with the plugins.
NothingLeaks ==
    /\ 1 .. buffers.allocated = Written(1) \cup buffers.free \cup buffers.held
    /\ 1 .. endpoints.allocated = Written(2) \cup endpoints.free \cup endpoints.held

\* Every chain of receives goes on: once its handler runs, successful or not, a
\* receive of the chain is armed again.
ChainsGoOn ==
    \A i \in Chain : created > i ~> receiving[i] # <<>>

\* Is everything down?
Down ==
    /\ CoreJoined
    /\ DatabaseJoined
    /\ joined = NetworkThreads

Phase ==
    CASE main = "none" -> "down"
      [] main \in {"test", "iterate"} -> "up"
      [] main \notin {"none", "test", "iterate"} /\ ~Down -> "ending"
      [] Down -> "over"

Abstract == INSTANCE Lifecycle WITH
    phase <- Phase,
    asked <- stopper # "idle",
    answered <- stopper = "returned" /\ starter = "returned",
    handed <- buffers.held

\* The core loop keeps what Lifecycle promises: it comes up, goes down in the
\* end when it is asked to and not before, whatever its threads and its fiber
\* are doing then; stop() and start() return in the end, and not before that;
\* after it no packet reaches the plugins.
ImplementsLifecycle == Abstract!FairSpec

=============================================================================
