--------------------------- MODULE NetworkPlugin ---------------------------
(***************************************************************************)
(* coreloop_network_plugin: how a packet received by one of the network    *)
(* threads reaches the client that sent it.                                *)
(*                                                                         *)
(* Three kinds of fibers of the core pool share the plugin's maps:         *)
(*   - one fiber per received packet (the lambda of handle_network_packet),*)
(*   - the core loop's own fiber, which runs tick() once per iteration,    *)
(*   - one fiber per client for client_inputs(), started by tick().        *)
(* User code calls disconnect() from any of them.                          *)
(*                                                                         *)
(* A step ends wherever another fiber can see or be blocked by what it did:*)
(* at a mutex kept past the step, and at tick()'s unlocked empty() tests.  *)
(* _shared_mutex is never kept while waiting for anything, so a section    *)
(* under it is one step; _local_mutex and _disconnect_mutex are kept.      *)
(***************************************************************************)
EXTENDS Integers, Sequences

CONSTANTS
    Endpoint,              \* remote udp endpoints
    Buffer,                \* network buffers, one per received packet
    MaxConcurrentThreads,  \* template parameter max_concurrent_threads
    RepeatDisconnect,      \* may user code disconnect one client twice?
    MaxPendingDisconnects  \* bound on the length of _pending_disconnects

ASSUME ConstantsAssumption ==
    /\ MaxConcurrentThreads \in Nat \ {0}
    /\ RepeatDisconnect \in BOOLEAN
    /\ MaxPendingDisconnects \in Nat

VARIABLES
    unused,               \* buffers no packet has been received into yet
    fibers,               \* the packet fibers that have not finished
    local_mutex,          \* _local_mutex[i]: "free", or the kind of its holder
    local_endpoints,      \* _local_endpoints[i]
    pending_inputs,       \* _pending_inputs[i], a map from endpoint to buffers
    new_endpoints,        \* _new_endpoints
    endpoints,            \* _endpoints
    endpoint_data,        \* _endpoint_data, a map from endpoint to buffers
    pending_disconnects,  \* _pending_disconnects
    disconnect_mutex,     \* _disconnect_mutex
    pc,                   \* where tick() is
    idx,                  \* tick()'s loop variable over the network threads
    inputs,               \* the client_inputs() fibers _inputs_counter waits for
    clients,              \* endpoints told by new_client, not yet on_disconnected
    delivered,            \* buffers handed to client_inputs()
    lost                  \* buffers dropped with their map entry

packetVars == <<unused, fibers>>
localVars  == <<local_mutex, local_endpoints, pending_inputs>>
sharedVars == <<new_endpoints, endpoints>>
tickVars   == <<pc, idx, inputs>>
userVars   == <<clients, delivered, lost>>
vars == <<packetVars, localVars, sharedVars, endpoint_data,
          pending_disconnects, disconnect_mutex, tickVars, userVars>>

Slot == 0 .. MaxConcurrentThreads - 1

\* A packet fiber: the lambda's captures and how far it has come.
Fiber == [buffer : Buffer, slot : Slot, from : Endpoint,
          stage : {"queued", "register", "insert"}]

\* The maps hold sets of buffers: packet fibers run concurrently, so the order
\* of a client's buffers carries no meaning even before they are stored.
BufferMap(m) ==
    /\ DOMAIN m \subseteq Endpoint
    /\ m \in [DOMAIN m -> SUBSET Buffer]

\* One type of every variable.
TypeOK ==
    /\ unused \subseteq Buffer
    /\ fibers \subseteq Fiber
    /\ local_mutex \in [Slot -> {"free", "packet", "tick"}]
    /\ local_endpoints \in [Slot -> SUBSET Endpoint]
    /\ DOMAIN pending_inputs = Slot
    /\ \A i \in Slot : BufferMap(pending_inputs[i])
    /\ new_endpoints \subseteq Endpoint
    /\ endpoints \subseteq Endpoint
    /\ BufferMap(endpoint_data)
    /\ pending_disconnects \in Seq(Endpoint)
    /\ disconnect_mutex \in {"free", "tick"}
    /\ pc \in {"new", "create", "gather", "accumulate", "inputs",
               "disconnect", "lock_locals", "clear_locals"}
    /\ idx \in 0 .. MaxConcurrentThreads
    /\ inputs \subseteq Endpoint
    /\ clients \subseteq Endpoint
    /\ delivered \subseteq Buffer
    /\ lost \subseteq Buffer

EmptyMap == [e \in {} |-> {}]

\* The map m after a buffer set is added under key e, created if absent.
AddTo(m, e, bs) ==
    [x \in DOMAIN m \cup {e} |->
        (IF x \in DOMAIN m THEN m[x] ELSE {}) \cup (IF x = e THEN bs ELSE {})]

Init ==
    /\ unused = Buffer
    /\ fibers = {}
    /\ local_mutex = [i \in Slot |-> "free"]
    /\ local_endpoints = [i \in Slot |-> {}]
    /\ pending_inputs = [i \in Slot |-> EmptyMap]
    /\ new_endpoints = {}
    /\ endpoints = {}
    /\ endpoint_data = EmptyMap
    /\ pending_disconnects = <<>>
    /\ disconnect_mutex = "free"
    /\ pc = "new"
    /\ idx = 0
    /\ inputs = {}
    /\ clients = {}
    /\ delivered = {}
    /\ lost = {}

----------------------------------------------------------------------------
(***************************************************************************)
(* Packet fibers.                                                          *)
(***************************************************************************)

\* Mistake: network threads numbered from 1.
HandleNetworkPacketFromOne(b, i, e) ==
    /\ b \in unused
    /\ unused' = unused \ {b}
    /\ fibers' = fibers \cup
         {[buffer |-> b, slot |-> i + 1, from |-> e, stage |-> "queued"]}
    /\ UNCHANGED <<localVars, sharedVars, endpoint_data, pending_disconnects,
                   disconnect_mutex, tickVars, userVars>>

\* A receive of network thread i completed: handle_network_packet pushes the
\* fiber that owns the buffer from here on.
HandleNetworkPacket(b, i, e) ==
    /\ b \in unused
    /\ unused' = unused \ {b}
    /\ fibers' = fibers \cup
         {[buffer |-> b, slot |-> i, from |-> e, stage |-> "queued"]}
    /\ UNCHANGED <<localVars, sharedVars, endpoint_data, pending_disconnects,
                   disconnect_mutex, tickVars, userVars>>

\* The endpoint is in the thread's own set: append, all under the local mutex.
\* The second conjunct is the code's assert on pending_inputs.find().
AppendKnown(f) ==
    /\ f.stage = "queued"
    /\ local_mutex[f.slot] = "free"
    /\ f.from \in local_endpoints[f.slot]
    /\ f.from \in DOMAIN pending_inputs[f.slot]
    /\ pending_inputs' =
         [pending_inputs EXCEPT ![f.slot] = AddTo(@, f.from, {f.buffer})]
    /\ fibers' = fibers \ {f}
    /\ UNCHANGED <<unused, local_mutex, local_endpoints, sharedVars,
                   endpoint_data, pending_disconnects, disconnect_mutex,
                   tickVars, userVars>>

\* The endpoint is not in the thread's own set: keep the local mutex and go for
\* the shared one.
MissLocal(f) ==
    /\ f.stage = "queued"
    /\ local_mutex[f.slot] = "free"
    /\ f.from \notin local_endpoints[f.slot]
    /\ local_mutex' = [local_mutex EXCEPT ![f.slot] = "packet"]
    /\ fibers' = (fibers \ {f}) \cup {[f EXCEPT !.stage = "register"]}
    /\ UNCHANGED <<unused, local_endpoints, pending_inputs, sharedVars,
                   endpoint_data, pending_disconnects, disconnect_mutex,
                   tickVars, userVars>>

\* Mistake: announce the endpoint without registering it.
RegisterEndpointAnnounceOnly(f) ==
    /\ f.stage = "register"
    /\ new_endpoints' = new_endpoints \cup {f.from}
    /\ fibers' = (fibers \ {f}) \cup {[f EXCEPT !.stage = "insert"]}
    /\ UNCHANGED <<unused, localVars, endpoints, endpoint_data,
                   pending_disconnects, disconnect_mutex, tickVars, userVars>>

\* Mistake: announce without asking whether another thread has done so.
RegisterEndpointAlwaysNew(f) ==
    /\ f.stage = "register"
    /\ endpoints' = endpoints \cup {f.from}
    /\ new_endpoints' = new_endpoints \cup {f.from}
    /\ fibers' = (fibers \ {f}) \cup {[f EXCEPT !.stage = "insert"]}
    /\ UNCHANGED <<unused, localVars, endpoint_data, pending_disconnects,
                   disconnect_mutex, tickVars, userVars>>

\* The section under _shared_mutex: the first thread to see the endpoint
\* announces it.
RegisterEndpoint(f) ==
    /\ f.stage = "register"
    /\ endpoints' = endpoints \cup {f.from}
    /\ new_endpoints' = IF f.from \in endpoints
                        THEN new_endpoints
                        ELSE new_endpoints \cup {f.from}
    /\ fibers' = (fibers \ {f}) \cup {[f EXCEPT !.stage = "insert"]}
    /\ UNCHANGED <<unused, localVars, endpoint_data, pending_disconnects,
                   disconnect_mutex, tickVars, userVars>>

\* Mistake: the local mutex is not released.
InsertEndpointKeepLock(f) ==
    /\ f.stage = "insert"
    /\ local_endpoints' = [local_endpoints EXCEPT ![f.slot] = @ \cup {f.from}]
    /\ pending_inputs' =
         [pending_inputs EXCEPT ![f.slot] = AddTo(@, f.from, {f.buffer})]
    /\ fibers' = fibers \ {f}
    /\ UNCHANGED <<unused, local_mutex, sharedVars, endpoint_data,
                   pending_disconnects, disconnect_mutex, tickVars, userVars>>

\* Insert the endpoint and its first buffer, release the local mutex.
InsertEndpoint(f) ==
    /\ f.stage = "insert"
    /\ local_endpoints' = [local_endpoints EXCEPT ![f.slot] = @ \cup {f.from}]
    /\ pending_inputs' =
         [pending_inputs EXCEPT ![f.slot] = AddTo(@, f.from, {f.buffer})]
    /\ local_mutex' = [local_mutex EXCEPT ![f.slot] = "free"]
    /\ fibers' = fibers \ {f}
    /\ UNCHANGED <<unused, sharedVars, endpoint_data, pending_disconnects,
                   disconnect_mutex, tickVars, userVars>>

----------------------------------------------------------------------------
(***************************************************************************)
(* tick(), run by the core loop's fiber again and again.                   *)
(***************************************************************************)

\* The unlocked test of _new_endpoints.
TestNewEndpoints ==
    /\ pc = "new"
    /\ pc' = IF new_endpoints = {} THEN "gather" ELSE "create"
    /\ idx' = 0
    /\ UNCHANGED <<packetVars, localVars, sharedVars, endpoint_data,
                   pending_disconnects, disconnect_mutex, inputs, userVars>>

\* Mistake: _new_endpoints is not cleared.
CreateClientsKeepNew ==
    /\ pc = "create"
    /\ endpoint_data' =
         [e \in DOMAIN endpoint_data \cup new_endpoints |->
            IF e \in DOMAIN endpoint_data THEN endpoint_data[e] ELSE {}]
    /\ clients' = clients \cup new_endpoints
    /\ pc' = "gather"
    /\ UNCHANGED <<packetVars, localVars, sharedVars, pending_disconnects,
                   disconnect_mutex, idx, inputs, delivered, lost>>

\* Under _shared_mutex: create the data of every new client, call new_client.
\* emplace() keeps an entry that is there already.
CreateClients ==
    /\ pc = "create"
    /\ endpoint_data' =
         [e \in DOMAIN endpoint_data \cup new_endpoints |->
            IF e \in DOMAIN endpoint_data THEN endpoint_data[e] ELSE {}]
    /\ clients' = clients \cup new_endpoints
    /\ new_endpoints' = {}
    /\ pc' = "gather"
    /\ UNCHANGED <<packetVars, localVars, endpoints, pending_disconnects,
                   disconnect_mutex, idx, inputs, delivered, lost>>

\* The unlocked test of _pending_inputs[idx].
TestPendingInputs ==
    /\ pc = "gather"
    /\ idx < MaxConcurrentThreads
    /\ IF DOMAIN pending_inputs[idx] = {}
       THEN idx' = idx + 1 /\ pc' = pc
       ELSE idx' = idx /\ pc' = "accumulate"
    /\ UNCHANGED <<packetVars, localVars, sharedVars, endpoint_data,
                   pending_disconnects, disconnect_mutex, inputs, userVars>>

\* Mistake: pending_buffers is cleared for the clients without data too.
AccumulateClearAll ==
    /\ pc = "accumulate"
    /\ local_mutex[idx] = "free"
    /\ endpoint_data' =
         [e \in DOMAIN endpoint_data |->
            endpoint_data[e] \cup (IF e \in DOMAIN pending_inputs[idx]
                                  THEN pending_inputs[idx][e] ELSE {})]
    /\ pending_inputs' = [pending_inputs EXCEPT ![idx] =
         [e \in DOMAIN pending_inputs[idx] |-> {}]]
    /\ idx' = idx + 1
    /\ pc' = "gather"
    /\ UNCHANGED <<packetVars, local_mutex, local_endpoints, sharedVars,
                   pending_disconnects, disconnect_mutex, inputs, userVars>>

\* Under _local_mutex[idx]: move the buffers of the clients that have data. A
\* client registered after CreateClients keeps its buffers for the next tick.
Accumulate ==
    /\ pc = "accumulate"
    /\ local_mutex[idx] = "free"
    /\ endpoint_data' =
         [e \in DOMAIN endpoint_data |->
            endpoint_data[e] \cup (IF e \in DOMAIN pending_inputs[idx]
                                  THEN pending_inputs[idx][e] ELSE {})]
    /\ pending_inputs' = [pending_inputs EXCEPT ![idx] =
         [e \in DOMAIN pending_inputs[idx] |->
            IF e \in DOMAIN endpoint_data THEN {} ELSE pending_inputs[idx][e]]]
    /\ idx' = idx + 1
    /\ pc' = "gather"
    /\ UNCHANGED <<packetVars, local_mutex, local_endpoints, sharedVars,
                   pending_disconnects, disconnect_mutex, inputs, userVars>>

\* Reset the counter and start one client_inputs() fiber per client.
DispatchInputs ==
    /\ pc = "gather"
    /\ idx = MaxConcurrentThreads
    /\ inputs' = DOMAIN endpoint_data
    /\ pc' = "inputs"
    /\ UNCHANGED <<packetVars, localVars, sharedVars, endpoint_data,
                   pending_disconnects, disconnect_mutex, idx, userVars>>

\* Mistake: the buffers are not cleared.
ClientInputsKeepBuffers(e) ==
    /\ e \in inputs
    /\ delivered' = delivered \cup endpoint_data[e]
    /\ inputs' = inputs \ {e}
    /\ UNCHANGED <<packetVars, localVars, sharedVars, endpoint_data,
                   pending_disconnects, disconnect_mutex, pc, idx, clients, lost>>

\* A client_inputs() fiber: user code takes the buffers, then they are cleared.
ClientInputs(e) ==
    /\ e \in inputs
    /\ delivered' = delivered \cup endpoint_data[e]
    /\ endpoint_data' = [endpoint_data EXCEPT ![e] = {}]
    /\ inputs' = inputs \ {e}
    /\ UNCHANGED <<packetVars, localVars, sharedVars, pending_disconnects,
                   disconnect_mutex, pc, idx, clients, lost>>

\* Mistake: no _inputs_counter.wait().
FinishInputsNoWait ==
    /\ pc = "inputs"
    /\ IF pending_disconnects = <<>>
       THEN pc' = "new" /\ UNCHANGED disconnect_mutex
       ELSE pc' = "disconnect" /\ disconnect_mutex' = "tick"
    /\ UNCHANGED <<packetVars, localVars, sharedVars, endpoint_data,
                   pending_disconnects, idx, inputs, userVars>>

\* Mistake: the test of _pending_disconnects is negated the wrong way, so a
\* vector with something in it is skipped.
FinishInputsSkip ==
    /\ pc = "inputs"
    /\ inputs = {}
    /\ pc' = "new"
    /\ UNCHANGED <<packetVars, localVars, sharedVars, endpoint_data,
                   pending_disconnects, disconnect_mutex, idx, inputs, userVars>>

\* _inputs_counter.wait() returns, post_network_tick() runs, then the unlocked
\* test of _pending_disconnects: end of this tick, or take _disconnect_mutex.
\* Calls of disconnect() between the test and the lock only lengthen a vector
\* found non-empty, so the two are one step.
FinishInputs ==
    /\ pc = "inputs"
    /\ inputs = {}
    /\ IF pending_disconnects = <<>>
       THEN pc' = "new" /\ UNCHANGED disconnect_mutex
       ELSE pc' = "disconnect" /\ disconnect_mutex' = "tick"
    /\ UNCHANGED <<packetVars, localVars, sharedVars, endpoint_data,
                   pending_disconnects, idx, inputs, userVars>>

\* The disconnect loop. While tick() holds _disconnect_mutex nobody else sees
\* the vector, so it is consumed from its head instead of cleared at the end.
Leaving == Head(pending_disconnects)

EraseData ==
    /\ pc = "disconnect"
    /\ pending_disconnects # <<>>
    /\ endpoint_data' = [e \in DOMAIN endpoint_data \ {Leaving} |->
                            endpoint_data[e]]
    /\ lost' = lost \cup (IF Leaving \in DOMAIN endpoint_data
                          THEN endpoint_data[Leaving] ELSE {})
    /\ idx' = 0
    /\ pc' = "lock_locals"
    /\ UNCHANGED <<packetVars, localVars, sharedVars, pending_disconnects,
                   disconnect_mutex, inputs, clients, delivered>>

\* Mistake: the locals are not waited for.
LockLocalNoWait ==
    /\ pc = "lock_locals"
    /\ idx < MaxConcurrentThreads
    /\ local_mutex' = [local_mutex EXCEPT ![idx] = "tick"]
    /\ idx' = idx + 1
    /\ UNCHANGED <<packetVars, local_endpoints, pending_inputs, sharedVars,
                   endpoint_data, pending_disconnects, disconnect_mutex,
                   pc, inputs, userVars>>

\* Lock all locals, in order, waiting for the packet fibers that hold them.
LockLocal ==
    /\ pc = "lock_locals"
    /\ idx < MaxConcurrentThreads
    /\ local_mutex[idx] = "free"
    /\ local_mutex' = [local_mutex EXCEPT ![idx] = "tick"]
    /\ idx' = idx + 1
    /\ UNCHANGED <<packetVars, local_endpoints, pending_inputs, sharedVars,
                   endpoint_data, pending_disconnects, disconnect_mutex,
                   pc, inputs, userVars>>

\* Under _shared_mutex: forget the endpoint. The third conjunct is the code's
\* assert(it != _endpoints.end()); where it fails the process aborts.
EraseEndpoint ==
    /\ pc = "lock_locals"
    /\ idx = MaxConcurrentThreads
    /\ Leaving \in endpoints
    /\ endpoints' = endpoints \ {Leaving}
    /\ idx' = 0
    /\ pc' = "clear_locals"
    /\ UNCHANGED <<packetVars, localVars, new_endpoints, endpoint_data,
                   pending_disconnects, disconnect_mutex, inputs, userVars>>

\* Mistake: the pending inputs go, the endpoint stays in the thread's set.
ClearLocalKeepEndpoint ==
    /\ pc = "clear_locals"
    /\ idx < MaxConcurrentThreads
    /\ IF Leaving \in local_endpoints[idx]
       THEN /\ pending_inputs' = [pending_inputs EXCEPT ![idx] =
                  [e \in DOMAIN pending_inputs[idx] \ {Leaving} |->
                     pending_inputs[idx][e]]]
            /\ lost' = lost \cup pending_inputs[idx][Leaving]
       ELSE UNCHANGED <<pending_inputs, lost>>
    /\ local_mutex' = [local_mutex EXCEPT ![idx] = "free"]
    /\ idx' = idx + 1
    /\ UNCHANGED <<packetVars, local_endpoints, sharedVars, endpoint_data,
                   pending_disconnects, disconnect_mutex, pc, inputs, clients,
                   delivered>>

\* Clear one local, unlock it. The buffers still in its entry go with it:
\* nobody releases them to the memory pool.
ClearLocal ==
    /\ pc = "clear_locals"
    /\ idx < MaxConcurrentThreads
    /\ local_endpoints' = [local_endpoints EXCEPT ![idx] = @ \ {Leaving}]
    /\ IF Leaving \in local_endpoints[idx]
       THEN /\ pending_inputs' = [pending_inputs EXCEPT ![idx] =
                  [e \in DOMAIN pending_inputs[idx] \ {Leaving} |->
                     pending_inputs[idx][e]]]
            /\ lost' = lost \cup pending_inputs[idx][Leaving]
       ELSE UNCHANGED <<pending_inputs, lost>>
    /\ local_mutex' = [local_mutex EXCEPT ![idx] = "free"]
    /\ idx' = idx + 1
    /\ UNCHANGED <<packetVars, sharedVars, endpoint_data, pending_disconnects,
                   disconnect_mutex, pc, inputs, clients, delivered>>

\* All locals unlocked: the callback, then the next endpoint.
OnDisconnected ==
    /\ pc = "clear_locals"
    /\ idx = MaxConcurrentThreads
    /\ clients' = clients \ {Leaving}
    /\ pending_disconnects' = Tail(pending_disconnects)
    /\ pc' = "disconnect"
    /\ UNCHANGED <<packetVars, localVars, sharedVars, endpoint_data,
                   disconnect_mutex, idx, inputs, delivered, lost>>

\* The loop is over: unlock, and the core loop's next tick() begins.
EndDisconnects ==
    /\ pc = "disconnect"
    /\ pending_disconnects = <<>>
    /\ disconnect_mutex' = "free"
    /\ pc' = "new"
    /\ UNCHANGED <<packetVars, localVars, sharedVars, endpoint_data,
                   pending_disconnects, idx, inputs, userVars>>

----------------------------------------------------------------------------
(***************************************************************************)
(* disconnect(), called by user code for a client it was told about. Unless*)
(* RepeatDisconnect, user code calls it once in the life of a client.      *)
(***************************************************************************)
Disconnect(e) ==
    /\ e \in clients
    /\ RepeatDisconnect \/ \A k \in 1 .. Len(pending_disconnects) :
                              pending_disconnects[k] # e
    /\ Len(pending_disconnects) < MaxPendingDisconnects
    /\ disconnect_mutex = "free"
    /\ pending_disconnects' = Append(pending_disconnects, e)
    /\ UNCHANGED <<packetVars, localVars, sharedVars, endpoint_data,
                   disconnect_mutex, tickVars, userVars>>

----------------------------------------------------------------------------
PacketFiber(f) ==
    \/ AppendKnown(f)
    \/ MissLocal(f)
    \/ RegisterEndpoint(f)
    \/ InsertEndpoint(f)

Tick ==
    \/ TestNewEndpoints
    \/ CreateClients
    \/ TestPendingInputs
    \/ Accumulate
    \/ DispatchInputs
    \/ FinishInputs
    \/ EraseData
    \/ LockLocal
    \/ EraseEndpoint
    \/ ClearLocal
    \/ OnDisconnected
    \/ EndDisconnects

Next ==
    \/ \E b \in Buffer, i \in Slot, e \in Endpoint : HandleNetworkPacket(b, i, e)
    \/ \E f \in fibers : PacketFiber(f)
    \/ Tick
    \/ \E e \in inputs : ClientInputs(e)
    \/ \E e \in clients : Disconnect(e)

\* The pool runs every runnable fiber (each packet has one), and the core loop
\* keeps calling tick().
\* Nothing obliges packets to arrive or user code to disconnect anybody.
Fairness ==
    /\ WF_vars(Tick)
    /\ \A b \in Buffer : WF_vars(\E f \in fibers : f.buffer = b /\ PacketFiber(f))
    /\ \A e \in Endpoint : WF_vars(ClientInputs(e))

Spec == Init /\ [][Next]_vars

FairSpec == Spec /\ Fairness

----------------------------------------------------------------------------
(***************************************************************************)
(* Properties.                                                             *)
(***************************************************************************)

\* tick() is between forgetting an endpoint's data and its on_disconnected.
Dropping == pc \in {"lock_locals", "clear_locals"}

\* The disconnect in progress still has to clear local i of endpoint e.
StillToClear(i, e) == pc = "clear_locals" /\ e = Leaving /\ idx <= i

\* assert(it != _endpoints.end()) of the disconnect loop never fails: whatever
\* packet fibers did since disconnect() was called, the endpoint is registered
\* when tick() comes to erase it.
DisconnectFindsEndpoint == pc = "lock_locals" => Leaving \in endpoints

\* "Client should be already added during local map", the assert of
\* handle_network_packet: a thread's endpoint set and the keys of its pending
\* inputs are the same set, through every insertion and every disconnect.
LocalMapsAgree ==
    \A i \in Slot : local_endpoints[i] = DOMAIN pending_inputs[i]

\* No input is stranded: a thread that knows an endpoint locally, and so skips
\* the registration, knows one that is registered, unless the disconnect in
\* progress is about to clear that very entry. This is what locking all locals
\* before touching _endpoints is for.
NoStrandedInput ==
    \A i \in Slot : \A e \in local_endpoints[i] :
        e \in endpoints \/ StillToClear(i, e)

\* The three registries agree: outside a disconnect, a registered endpoint is
\* either waiting to be announced or has data, and never both; during one, the
\* endpoint that is leaving has no data.
RegistriesAgree ==
    /\ endpoints \ (IF Dropping THEN {Leaving} ELSE {}) =
       (new_endpoints \cup DOMAIN endpoint_data) \
          (IF Dropping THEN {Leaving} ELSE {})
    /\ new_endpoints \cap DOMAIN endpoint_data = {}
    /\ Dropping => Leaving \notin DOMAIN endpoint_data

\* new_client and on_disconnected alternate: tick() never announces a client
\* the user already has, even when a late packet registers an endpoint again
\* while its disconnect is still running.
SessionsAlternate == pc = "create" => new_endpoints \cap clients = {}

\* Where a received buffer can be.
InFiber(b)   == \E f \in fibers : f.buffer = b
InPending(b) == \E i \in Slot : \E e \in DOMAIN pending_inputs[i] :
                    b \in pending_inputs[i][e]
InData(b)    == \E e \in DOMAIN endpoint_data : b \in endpoint_data[e]

\* Every received buffer is in exactly one place: with its fiber, pending at
\* one thread for one endpoint, in one client's data, handed to the user, or
\* dropped by a disconnect. In particular no buffer is delivered twice.
OneOwner ==
    \A b \in Buffer \ unused :
        /\ InFiber(b) \/ InPending(b) \/ InData(b) \/ b \in delivered \/ b \in lost
        /\ InFiber(b) => ~(InPending(b) \/ InData(b) \/ b \in delivered \/ b \in lost)
        /\ InPending(b) => ~(InData(b) \/ b \in delivered \/ b \in lost)
        /\ InData(b) => ~(b \in delivered \/ b \in lost)
        /\ b \in delivered => b \notin lost
        /\ \A i, j \in Slot :
              \A d \in DOMAIN pending_inputs[i], e \in DOMAIN pending_inputs[j] :
                  b \in pending_inputs[i][d] \cap pending_inputs[j][e] => i = j /\ d = e

\* Erasing a client's data drops no buffer: by the time tick() gets to the
\* disconnects every client_inputs() fiber has emptied its vector. Only inputs
\* still pending at a network thread are lost.
ErasedDataIsEmpty ==
    pc \in {"disconnect", "lock_locals", "clear_locals"} =>
        \A e \in DOMAIN endpoint_data : endpoint_data[e] = {}

\* The packets of an endpoint on their way to the user.
Waiting(e) ==
    {f.buffer : f \in {g \in fibers : g.from = e}}
        \cup (UNION {pending_inputs[i][e] :
                       i \in {j \in Slot : e \in DOMAIN pending_inputs[j]}})
        \cup (IF e \in DOMAIN endpoint_data THEN endpoint_data[e] ELSE {})

Abstract == INSTANCE Sessions WITH
    leaving <- {pending_disconnects[k] : k \in 1 .. Len(pending_disconnects)},
    mailbox <- [e \in Endpoint |-> Waiting(e)]

\* The plugin keeps what Sessions promises. Whatever fibers and threads do, a
\* client is announced only for a packet that waits for it and not while it has
\* a session, a packet is delivered once, to the client that sent it and during
\* its session, and only a client whose disconnect was asked for loses any.
ImplementsSessions == Abstract!Spec

\* Every packet handed to the plugin is eventually handed to client_inputs(),
\* or dropped because its client was disconnected meanwhile. There are finitely
\* many packets, and one that arrived stays so: hence all at once.
PacketsArrive == <>[](Buffer \ unused \subseteq delivered \cup lost)

\* A disconnect asked for is carried out: the client gets its on_disconnected.
DisconnectsComplete ==
    \A e \in Endpoint :
        (\E k \in 1 .. Len(pending_disconnects) : pending_disconnects[k] = e)
            ~> e \notin clients

============================================================================
