------------------------------- MODULE Server -------------------------------
(***************************************************************************)
(* The server the main program runs: the core loop with the network plugin *)
(* and user code. CoreLoop says how it starts, receives and stops, with    *)
(* plugins that may keep what they get; NetworkPlugin says what the plugin *)
(* does, with packets that come from nowhere and ticks that never end.     *)
(* Here they share steps:                                                  *)
(*   - the handler of a receive hands its packet to the plugin, whose fiber*)
(*     has the buffer and the endpoint object from then on, and gives the  *)
(*     endpoint object back after it has left the plugin's maps;           *)
(*   - one iteration of the main loop is one tick();                       *)
(*   - user code gives back each buffer it got, at once or when it has sent*)
(*     it and the network thread runs the callback;                        *)
(*   - fibers run as long as the core pool's threads do.                   *)
(***************************************************************************)
EXTENDS Integers, Sequences, FiniteSets, Functions

CONSTANTS
    Endpoint,              \* remote udp endpoints
    NetworkThreads,        \* _num_network_threads
    MaxObjects,            \* bound on the objects of each memory pool
    MaxPendingDisconnects, \* bound on the length of _pending_disconnects
    JoinPools              \* the argument of start()

ASSUME ConstantsAssumption ==
    /\ NetworkThreads \in Nat \ {0}
    /\ MaxObjects \in Nat
    /\ MaxObjects > NetworkThreads
    /\ MaxPendingDisconnects \in Nat
    /\ JoinPools \in BOOLEAN

VARIABLES
    \* The core loop, see CoreLoop.
    join_pools, with_database, starter, stopper, main, running, must_join,
    core_pool, database_pool, arrived, stopped, created, joined, thread,
    receiving, buffer_pool, endpoint_pool,
    \* The network plugin, see NetworkPlugin.
    unused, fibers, local_mutex, local_endpoints, pending_inputs,
    new_endpoints, endpoints, endpoint_data, pending_disconnects,
    disconnect_mutex, pc, idx, inputs, clients, delivered, lost,
    \* What they share.
    carries,    \* the endpoint object of each buffer that is with its fiber
    returning,  \* endpoint objects of fibers that have only to release them
    sending     \* the delivered buffers user code is sending

Core == INSTANCE CoreLoop WITH
    buffers <- buffer_pool,
    endpoints <- endpoint_pool

Plugin == INSTANCE NetworkPlugin WITH
    Buffer <- 1 .. MaxObjects,
    MaxConcurrentThreads <- NetworkThreads,
    RepeatDisconnect <- FALSE

coreVars  == <<join_pools, with_database, starter, stopper, main, running,
               must_join, core_pool, database_pool, arrived, stopped, created,
               joined, thread, receiving, buffer_pool, endpoint_pool>>
mapVars   == <<local_mutex, local_endpoints, pending_inputs, new_endpoints,
               endpoints, endpoint_data, pending_disconnects, disconnect_mutex,
               pc, idx, inputs, clients>>
pluginVars == <<unused, fibers, mapVars, delivered, lost>>
linkVars   == <<carries, returning, sending>>
vars == <<coreVars, pluginVars, linkVars>>

\* main() calls start() with a database.
Init ==
    /\ Core!Init
    /\ join_pools = JoinPools
    /\ with_database
    /\ Plugin!Init
    /\ carries = <<>>
    /\ returning = {}
    /\ sending = {}

----------------------------------------------------------------------------
(***************************************************************************)
(* Receiving: network threads.                                             *)
(***************************************************************************)

\* call_handle_network_packet_proxy: the packet of a client e goes to the plugin
\* with the number of the chain, in the handler.
PacketReceived(t, i, e) ==
    /\ Core!PacketReceived(t, i)
    /\ Plugin!HandleNetworkPacket(receiving[i][1], i, e)
    /\ carries' = [b \in DOMAIN carries \cup {receiving[i][1]} |->
                     IF b = receiving[i][1] THEN receiving[i][2] ELSE carries[b]]
    /\ UNCHANGED <<returning, sending>>

\* The steps of a network thread that do not concern the plugin.
ReceiveFailed(t, i) ==
    /\ Core!ReceiveFailed(t, i)
    /\ UNCHANGED <<pluginVars, linkVars>>

NetworkThread(t) ==
    /\ Core!HandleAgain(t) \/ Core!RunReturns(t)
    /\ UNCHANGED <<pluginVars, linkVars>>

----------------------------------------------------------------------------
(***************************************************************************)
(* The core pool's fibers.                                                 *)
(***************************************************************************)

\* The join() of the core pool has returned to somebody.
PoolJoined ==
    \/ starter \in {"join_database", "signal", "barrier"}
    \/ starter = "returned" /\ join_pools
    \/ stopper \in {"join_database", "returned"}

\* The pool's threads run fibers until they are joined; some may never run once
\* the pool was told to end.
PoolRuns == core_pool # "new" /\ ~PoolJoined

\* Mistake: the endpoint object is released before the fiber is done with it.
PacketFiberReleasesFirst(f) ==
    /\ PoolRuns
    /\ Plugin!PacketFiber(f)
    /\ IF \E g \in fibers' : g.buffer = f.buffer
       THEN /\ UNCHANGED <<carries, returning>>
            /\ Core!ReleaseNetworkEndpoint(carries[f.buffer])
       ELSE /\ carries' = Restrict(carries, DOMAIN carries \ {f.buffer})
            /\ returning' = returning \cup {carries[f.buffer]}
            /\ UNCHANGED coreVars
    /\ UNCHANGED sending

\* A packet fiber goes on. When it has left the maps it has its endpoint object
\* still to release; the buffer belongs to the plugin.
PacketFiber(f) ==
    /\ PoolRuns
    /\ Plugin!PacketFiber(f)
    /\ IF \E g \in fibers' : g.buffer = f.buffer
       THEN UNCHANGED <<carries, returning>>
       ELSE /\ carries' = Restrict(carries, DOMAIN carries \ {f.buffer})
            /\ returning' = returning \cup {carries[f.buffer]}
    /\ UNCHANGED <<coreVars, sending>>

\* The last statement of a packet fiber: release_network_endpoint.
ReleaseEndpoint(e) ==
    /\ PoolRuns
    /\ e \in returning
    /\ Core!ReleaseNetworkEndpoint(e)
    /\ returning' = returning \ {e}
    /\ UNCHANGED <<pluginVars, carries, sending>>

\* tick() runs in an iteration of the main loop and ends it.
Tick ==
    /\ main = "iterate"
    /\ Plugin!Tick
    /\ IF pc' = "new" THEN Core!MainIterate ELSE UNCHANGED coreVars
    /\ UNCHANGED linkVars

ClientInputs(e) ==
    /\ PoolRuns
    /\ Plugin!ClientInputs(e)
    /\ UNCHANGED <<coreVars, linkVars>>

\* The rest of the main loop's fiber, the starter and the stopper.
Start == Core!Start      /\ UNCHANGED <<pluginVars, linkVars>>
StopCalled == Core!StopCalled /\ UNCHANGED <<pluginVars, linkVars>>
Stop == Core!Stop       /\ UNCHANGED <<pluginVars, linkVars>>

MainLoop ==
    /\ main # "iterate"
    /\ Core!MainLoop
    /\ UNCHANGED <<pluginVars, linkVars>>

----------------------------------------------------------------------------
(***************************************************************************)
(* User code.                                                              *)
(***************************************************************************)

\* A buffer that went back to the memory pool can hold another packet.
Recycle(b) ==
    /\ Core!ReleaseNetworkBuffer(b)
    /\ unused' = unused \cup {b}
    /\ delivered' = delivered \ {b}
    /\ UNCHANGED <<fibers, mapVars, lost>>

ReleaseBuffer(b) ==
    /\ PoolRuns
    /\ b \in delivered \ sending
    /\ Recycle(b)
    /\ UNCHANGED linkVars

\* Mistake: the buffer is released as soon as send_data() returns.
SendDataReleases(b) ==
    /\ PoolRuns
    /\ b \in delivered \ sending
    /\ Recycle(b)
    /\ sending' = sending \cup {b}
    /\ UNCHANGED <<carries, returning>>

\* send_data(): the operation is with the io_context, and reads the buffer.
SendData(b) ==
    /\ PoolRuns
    /\ b \in delivered \ sending
    /\ sending' = sending \cup {b}
    /\ UNCHANGED <<coreVars, pluginVars, carries, returning>>

\* A network thread completes the send and runs the callback, which releases the
\* buffer. In a stopped context it never does.
SendCompletes(t, b) ==
    /\ thread[t] = Core!Idle
    /\ ~stopped
    /\ b \in sending
    /\ Recycle(b)
    /\ sending' = sending \ {b}
    /\ UNCHANGED <<carries, returning>>

Disconnect(e) ==
    /\ PoolRuns
    /\ Plugin!Disconnect(e)
    /\ UNCHANGED <<coreVars, linkVars>>

----------------------------------------------------------------------------
\* What user code does with the buffers it has.
UserReturns(b) ==
    \/ ReleaseBuffer(b)
    \/ SendData(b)

Next ==
    \/ Start
    \/ MainLoop
    \/ StopCalled
    \/ Stop
    \/ \E t, i \in Core!Chain, e \in Endpoint : PacketReceived(t, i, e)
    \/ \E t, i \in Core!Chain : ReceiveFailed(t, i)
    \/ \E t \in Core!Chain : NetworkThread(t)
    \/ Tick
    \/ \E f \in fibers : PacketFiber(f)
    \/ \E m \in Core!Memory : ReleaseEndpoint(m)
    \/ \E e \in inputs : ClientInputs(e)
    \/ \E b \in delivered : UserReturns(b)
    \/ \E t \in Core!Chain, b \in sending : SendCompletes(t, b)
    \/ \E e \in clients : Disconnect(e)

\* Threads and the main loop run, and the pool runs some packet fiber and some
\* client_inputs() that can run. Nothing obliges packets to arrive, user code to
\* return a buffer, or anybody to disconnect or to stop.
Fairness ==
    /\ WF_vars(Start)
    /\ WF_vars(MainLoop \/ Tick)
    /\ WF_vars(Stop)
    /\ WF_vars(\E f \in fibers : PacketFiber(f))
    /\ WF_vars(\E e \in inputs : ClientInputs(e))
    /\ \A t \in Core!Chain : WF_vars(NetworkThread(t))

Spec == Init /\ [][Next]_vars

FairSpec == Spec /\ Fairness

----------------------------------------------------------------------------
(***************************************************************************)
(* Properties.                                                             *)
(***************************************************************************)

\* The endpoint objects the core loop handed out are those of packet fibers, one
\* each, although a buffer may hold its next packet before the fiber that brought
\* it the last time has released its endpoint object: none leaks, and none is
\* received into while a fiber reads it.
EndpointsOwned ==
    /\ DOMAIN carries = {f.buffer : f \in fibers}
    /\ endpoint_pool.held = Range(carries) \cup returning
    /\ Range(carries) \cap returning = {}
    /\ \A a, b \in DOMAIN carries : a # b => carries[a] # carries[b]
    /\ Core!Written(2) \cap endpoint_pool.held = {}

\* The buffers the core loop handed out are with the plugin or with user code, each
\* in one place there; one that is being sent is still with user code, so that
\* nobody gets it from its memory pool, or receives into it, before the callback.
BuffersOwned ==
    /\ Plugin!OneOwner
    /\ buffer_pool.held = Core!Memory \ unused
    /\ sending \subseteq delivered
    /\ (Core!Written(1) \cup buffer_pool.free) \cap buffer_pool.held = {}

\* Once start() has joined the pools nothing of the plugin changes: no handler
\* hands it a packet any more, although handlers go on after the core pool ended.
QuietAfterJoin == [][PoolJoined => UNCHANGED pluginVars]_vars

\* stop() returns, whatever tick() waits for when it is called: a tick that has
\* begun ends, although packets go on arriving.
StopReturns == stopper # "idle" ~> stopper = "returned"

=============================================================================
