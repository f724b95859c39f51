------------------------- MODULE NetworkPluginProofs -------------------------
(***************************************************************************)
(* Proofs about NetworkPlugin, for any number of network threads, endpoints*)
(* and packets.                                                            *)
(***************************************************************************)
EXTENDS NetworkPlugin, SequenceTheorems, TLAPS

----------------------------------------------------------------------------
(***************************************************************************)
(* Type correctness.                                                       *)
(***************************************************************************)

\* AddTo makes a map of buffers of one: what push_back into an entry that may
\* have just been emplaced does to _pending_inputs.
LEMMA AddToType ==
    ASSUME NEW m, BufferMap(m), NEW e \in Endpoint, NEW b \in Buffer
    PROVE  BufferMap(AddTo(m, e, {b}))
BY DEF BufferMap, AddTo

\* Erasing a key of a map of buffers leaves one.
LEMMA EraseType ==
    ASSUME NEW m, BufferMap(m), NEW e
    PROVE  BufferMap([x \in DOMAIN m \ {e} |-> m[x]])
BY DEF BufferMap

\* What tick() relies on to read its arrays: it accumulates the inputs of a
\* network thread that exists, starts client_inputs() for clients with data
\* only, and while it drops an endpoint there is one at the head of the vector.
TickInRange ==
    /\ pc = "accumulate" => idx < MaxConcurrentThreads
    /\ inputs \subseteq DOMAIN endpoint_data
    /\ pc # "inputs" => inputs = {}
    /\ Dropping => pending_disconnects # <<>>

\* The types are inductive with these facts: ClearLocal reads the entry of
\* _pending_inputs for an endpoint it found in _local_endpoints.
TypeInv == TypeOK /\ TickInRange /\ LocalMapsAgree

\* The variables have their types in the initial state.
LEMMA InitType == Init => TypeInv
<1>1. BufferMap(EmptyMap)
  BY DEF BufferMap, EmptyMap
<1>2. <<>> \in Seq(Endpoint)
  OBVIOUS
<1> QED
  BY <1>1, <1>2, ConstantsAssumption DEF Init, TypeInv, TypeOK, TickInRange,
        Dropping, LocalMapsAgree, EmptyMap, Slot

\* Every step keeps the types of the variables.
LEMMA NextType == TypeInv /\ [Next]_vars => TypeInv'
<1> SUFFICES ASSUME TypeInv, [Next]_vars PROVE TypeInv'
  OBVIOUS
<1> USE ConstantsAssumption DEF TypeInv, TypeOK, TickInRange, Dropping, LocalMapsAgree,
        packetVars, localVars, sharedVars, tickVars, userVars
<1>1. ASSUME NEW b \in Buffer, NEW i \in Slot, NEW e \in Endpoint,
             HandleNetworkPacket(b, i, e)
      PROVE  TypeInv'
  BY <1>1 DEF HandleNetworkPacket, Fiber
<1>2. ASSUME NEW f \in fibers, PacketFiber(f)
      PROVE  TypeInv'
  <2> f \in Fiber
    OBVIOUS
  <2> USE DEF Fiber
  <2>1. CASE AppendKnown(f)
    <3>1. BufferMap(AddTo(pending_inputs[f.slot], f.from, {f.buffer}))
      BY AddToType
    <3>2. DOMAIN AddTo(pending_inputs[f.slot], f.from, {f.buffer})
            = DOMAIN pending_inputs[f.slot]
      BY <2>1 DEF AddTo, AppendKnown
    <3>3. DOMAIN pending_inputs' = Slot /\ \A i \in Slot : BufferMap(pending_inputs'[i])
      BY <2>1, <3>1 DEF AppendKnown
    <3>4. \A i \in Slot : local_endpoints'[i] = DOMAIN pending_inputs'[i]
      BY <2>1, <3>2 DEF AppendKnown
    <3> QED
      BY <2>1, <3>3, <3>4 DEF AppendKnown
  <2>2. CASE MissLocal(f)
    BY <2>2 DEF MissLocal
  <2>3. CASE RegisterEndpoint(f)
    BY <2>3 DEF RegisterEndpoint
  <2>4. CASE InsertEndpoint(f)
    <3>1. BufferMap(AddTo(pending_inputs[f.slot], f.from, {f.buffer}))
      BY AddToType
    <3>2. DOMAIN AddTo(pending_inputs[f.slot], f.from, {f.buffer})
            = DOMAIN pending_inputs[f.slot] \cup {f.from}
      BY DEF AddTo
    <3>3. DOMAIN pending_inputs' = Slot /\ \A i \in Slot : BufferMap(pending_inputs'[i])
      BY <2>4, <3>1 DEF InsertEndpoint
    <3>4. \A i \in Slot : local_endpoints'[i] = DOMAIN pending_inputs'[i]
      BY <2>4, <3>2 DEF InsertEndpoint
    <3> QED
      BY <2>4, <3>3, <3>4 DEF InsertEndpoint
  <2> QED
    BY <1>2, <2>1, <2>2, <2>3, <2>4 DEF PacketFiber
<1>3. CASE Tick
  <2>1. CASE TestNewEndpoints
    BY <2>1 DEF TestNewEndpoints
  <2>2. CASE CreateClients
    <3>1. BufferMap(endpoint_data')
      BY <2>2 DEF CreateClients, BufferMap
    <3> QED
      BY <2>2, <3>1 DEF CreateClients
  <2>3. CASE TestPendingInputs
    BY <2>3 DEF TestPendingInputs, Slot
  <2>4. CASE Accumulate
    <3> DEFINE i == idx
    <3>1. i \in Slot
      BY <2>4 DEF Accumulate, Slot
    <3>2. BufferMap(endpoint_data')
      BY <2>4, <3>1 DEF Accumulate, BufferMap
    <3>3. BufferMap([e \in DOMAIN pending_inputs[i] |->
             IF e \in DOMAIN endpoint_data THEN {} ELSE pending_inputs[i][e]])
      BY <3>1 DEF BufferMap
    <3>4. DOMAIN pending_inputs' = Slot /\ \A j \in Slot : BufferMap(pending_inputs'[j])
      BY <2>4, <3>1, <3>3 DEF Accumulate
    <3>5. idx' \in 0 .. MaxConcurrentThreads /\ inputs' = {}
      BY <2>4 DEF Accumulate
    <3> QED
      BY <2>4, <3>2, <3>4, <3>5 DEF Accumulate
  <2>5. CASE DispatchInputs
    BY <2>5 DEF DispatchInputs, BufferMap
  <2>6. CASE FinishInputs
    BY <2>6 DEF FinishInputs
  <2>7. CASE EraseData
    <3>1. BufferMap(endpoint_data')
      BY <2>7, EraseType DEF EraseData
    <3>2. lost' \subseteq Buffer
      BY <2>7 DEF EraseData, BufferMap
    <3> QED
      BY <2>7, <3>1, <3>2 DEF EraseData
  <2>8. CASE LockLocal
    BY <2>8 DEF LockLocal, Slot
  <2>9. CASE EraseEndpoint
    BY <2>9 DEF EraseEndpoint
  <2>10. CASE ClearLocal
    <3>1. idx \in Slot
      BY <2>10 DEF ClearLocal, Slot
    <3>2. idx' \in 0 .. MaxConcurrentThreads
      BY <2>10 DEF ClearLocal
    <3>3. /\ local_endpoints' \in [Slot -> SUBSET Endpoint]
          /\ local_mutex' \in [Slot -> {"free", "packet", "tick"}]
      BY <2>10, <3>1 DEF ClearLocal
    <3>4. DOMAIN pending_inputs' = Slot /\ \A i \in Slot : BufferMap(pending_inputs'[i])
      <4>1. CASE Leaving \in local_endpoints[idx]
        <5>1. BufferMap([e \in DOMAIN pending_inputs[idx] \ {Leaving} |->
                           pending_inputs[idx][e]])
          BY <3>1, EraseType
        <5> QED
          BY <2>10, <3>1, <4>1, <5>1 DEF ClearLocal
      <4>2. CASE Leaving \notin local_endpoints[idx]
        BY <2>10, <4>2 DEF ClearLocal
      <4> QED
        BY <4>1, <4>2
    <3>5. lost' \subseteq Buffer
      <4>1. Leaving \in DOMAIN pending_inputs[idx] =>
              pending_inputs[idx][Leaving] \subseteq Buffer
        BY <3>1 DEF BufferMap
      <4> QED
        BY <2>10, <3>1, <4>1 DEF ClearLocal
    <3>6. \A i \in Slot : local_endpoints'[i] = DOMAIN pending_inputs'[i]
      BY <2>10, <3>1 DEF ClearLocal
    <3> QED
      BY <2>10, <3>2, <3>3, <3>4, <3>5, <3>6 DEF ClearLocal
  <2>11. CASE OnDisconnected
    BY <2>11 DEF OnDisconnected
  <2>12. CASE EndDisconnects
    BY <2>12 DEF EndDisconnects
  <2> QED
    BY <1>3, <2>1, <2>2, <2>3, <2>4, <2>5, <2>6, <2>7, <2>8, <2>9, <2>10,
       <2>11, <2>12 DEF Tick
<1>4. ASSUME NEW e \in inputs, ClientInputs(e)
      PROVE  TypeInv'
  <2>1. delivered' \subseteq Buffer /\ BufferMap(endpoint_data')
    BY <1>4 DEF ClientInputs, BufferMap
  <2>2. DOMAIN endpoint_data' = DOMAIN endpoint_data
    BY <1>4 DEF ClientInputs
  <2> QED
    BY <1>4, <2>1, <2>2 DEF ClientInputs
<1>5. ASSUME NEW e \in clients, Disconnect(e)
      PROVE  TypeInv'
  BY <1>5 DEF Disconnect
<1>6. CASE UNCHANGED vars
  BY <1>6 DEF vars
<1> QED
  BY <1>1, <1>2, <1>3, <1>4, <1>5, <1>6 DEF Next

\* The variables of the network plugin always have their types.
THEOREM TypeCorrect == Spec => []TypeOK
<1> QED
  BY InitType, NextType, PTL DEF Spec, TypeInv

\* The assert of handle_network_packet never fails: the endpoints a network
\* thread knows are the keys of its pending inputs, at all times.
THEOREM LocalMapsAlwaysAgree == Spec => []LocalMapsAgree
<1> QED
  BY InitType, NextType, PTL DEF Spec, TypeInv

----------------------------------------------------------------------------
(***************************************************************************)
(* The mutexes, and what they protect: NoStrandedInput.                    *)
(***************************************************************************)

\* A packet fiber past its first section holds its thread's mutex.
Holds(f) == f.stage # "queued"

\* tick() locks the locals in order, and unlocks them in the same order.
TickHolds(i) ==
    \/ pc = "lock_locals" /\ i < idx
    \/ pc = "clear_locals" /\ idx <= i

\* Each local mutex has at most the one holder that local_mutex says.
LocksHeld ==
    /\ \A f \in fibers : Holds(f) => local_mutex[f.slot] = "packet"
    /\ \A f, g \in fibers : Holds(f) /\ Holds(g) /\ f.slot = g.slot => f = g
    /\ \A i \in Slot : local_mutex[i] = "tick" <=> TickHolds(i)

\* A fiber that is about to insert an endpoint into its thread's set has seen
\* it registered, and tick() has not erased it since.
RegisteredBeforeInsert ==
    \A f \in fibers : f.stage = "insert" => f.from \in endpoints

LockInv == LocksHeld /\ RegisteredBeforeInsert /\ NoStrandedInput

\* Nobody holds a mutex and nothing is stored in the initial state.
LEMMA InitLock == Init => LockInv
BY ConstantsAssumption
   DEF Init, LockInv, LocksHeld, TickHolds, RegisteredBeforeInsert,
       NoStrandedInput

\* Every step keeps the mutexes' holders, and no step strands an input.
LEMMA NextLock == TypeInv /\ TypeInv' /\ LockInv /\ [Next]_vars => LockInv'
<1> SUFFICES ASSUME TypeInv, TypeInv', LockInv, [Next]_vars PROVE LockInv'
  OBVIOUS
<1> USE ConstantsAssumption
    DEF LockInv, LocksHeld, Holds, TickHolds, RegisteredBeforeInsert,
        NoStrandedInput, StillToClear, Leaving,
        packetVars, localVars, sharedVars, tickVars, userVars
<1>0. /\ fibers \subseteq Fiber
      /\ local_mutex \in [Slot -> {"free", "packet", "tick"}]
      /\ local_endpoints \in [Slot -> SUBSET Endpoint]
      /\ idx \in 0 .. MaxConcurrentThreads
      /\ pending_disconnects \in Seq(Endpoint)
      /\ Dropping => pending_disconnects # <<>>
      /\ Slot \subseteq Int
  BY DEF TypeInv, TypeOK, TickInRange, Slot
<1>1. ASSUME NEW b \in Buffer, NEW i \in Slot, NEW e \in Endpoint,
             HandleNetworkPacket(b, i, e)
      PROVE  LockInv'
  BY <1>0, <1>1 DEF HandleNetworkPacket
<1>2. ASSUME NEW f \in fibers, PacketFiber(f)
      PROVE  LockInv'
  <2>0. f \in Fiber /\ f.slot \in Slot
    BY <1>0 DEF Fiber
  <2>1. CASE AppendKnown(f)
    BY <1>0, <2>0, <2>1 DEF AppendKnown
  <2>2. CASE MissLocal(f)
    BY <1>0, <2>0, <2>2 DEF MissLocal, Fiber
  <2>3. CASE RegisterEndpoint(f)
    <3> DEFINE g == [f EXCEPT !.stage = "insert"]
    <3>1. /\ g.slot = f.slot /\ g.from = f.from /\ g.stage = "insert"
          /\ fibers' = (fibers \ {f}) \cup {g}
          /\ Holds(f) /\ local_mutex[f.slot] = "packet"
          /\ endpoints' = endpoints \cup {f.from}
          /\ UNCHANGED <<local_mutex, local_endpoints, pending_disconnects, pc, idx>>
      BY <2>0, <2>3 DEF RegisterEndpoint, Fiber
    <3> HIDE DEF g
    <3>2. LocksHeld'
      BY <3>1
    <3>3. RegisteredBeforeInsert'
      BY <3>1
    <3>4. NoStrandedInput'
      BY <3>1
    <3> QED
      BY <3>2, <3>3, <3>4
  <2>4. CASE InsertEndpoint(f)
    BY <1>0, <2>0, <2>4 DEF InsertEndpoint, Fiber
  <2> QED
    BY <1>2, <2>1, <2>2, <2>3, <2>4 DEF PacketFiber
<1>3. CASE Tick
  <2>1. CASE TestNewEndpoints
    BY <1>0, <2>1 DEF TestNewEndpoints
  <2>2. CASE CreateClients
    BY <1>0, <2>2 DEF CreateClients
  <2>3. CASE TestPendingInputs
    BY <1>0, <2>3 DEF TestPendingInputs
  <2>4. CASE Accumulate
    BY <1>0, <2>4 DEF Accumulate
  <2>5. CASE DispatchInputs
    BY <1>0, <2>5 DEF DispatchInputs
  <2>6. CASE FinishInputs
    BY <1>0, <2>6 DEF FinishInputs
  <2>7. CASE EraseData
    BY <1>0, <2>7 DEF EraseData, Slot
  <2>8. CASE LockLocal
    BY <1>0, <2>8 DEF LockLocal, Slot
  <2>9. CASE EraseEndpoint
    BY <1>0, <2>9 DEF EraseEndpoint, Slot, Fiber
  <2>10. CASE ClearLocal
    BY <1>0, <2>10 DEF ClearLocal, Slot, Fiber
  <2>11. CASE OnDisconnected
    BY <1>0, <2>11 DEF OnDisconnected, Slot
  <2>12. CASE EndDisconnects
    BY <1>0, <2>12 DEF EndDisconnects
  <2> QED
    BY <1>3, <2>1, <2>2, <2>3, <2>4, <2>5, <2>6, <2>7, <2>8, <2>9, <2>10,
       <2>11, <2>12 DEF Tick
<1>4. ASSUME NEW e \in inputs, ClientInputs(e)
      PROVE  LockInv'
  BY <1>0, <1>4 DEF ClientInputs
<1>5. ASSUME NEW e \in clients, Disconnect(e)
      PROVE  LockInv'
  BY <1>0, <1>5 DEF Disconnect, Dropping
<1>6. CASE UNCHANGED vars
  BY <1>6 DEF vars
<1> QED
  BY <1>1, <1>2, <1>3, <1>4, <1>5, <1>6 DEF Next

\* A network thread that skips the registration of an endpoint may do so: the
\* endpoint is registered, or its entry is about to be cleared.
THEOREM NoInputStranded == Spec => []NoStrandedInput
<1> QED
  BY InitType, NextType, InitLock, NextLock, PTL DEF Spec, LockInv

----------------------------------------------------------------------------
(***************************************************************************)
(* The registries and the life of a client, when user code disconnects a   *)
(* client once.                                                            *)
(***************************************************************************)

\* A client the user knows is registered until its disconnect erases it.
ClientsRegistered ==
    \A e \in clients : e \in endpoints \/ (pc = "clear_locals" /\ e = Leaving)

\* What waits to be announced is registered, and unknown to the user unless it
\* came back while its disconnect is running.
NewRegistered ==
    /\ new_endpoints \subseteq endpoints
    /\ \A e \in new_endpoints \cap clients : pc = "clear_locals" /\ e = Leaving

\* _pending_disconnects holds clients, each once.
DisconnectsOfClients ==
    \A k \in 1 .. Len(pending_disconnects) :
        /\ pending_disconnects[k] \in clients
        /\ \A j \in 1 .. Len(pending_disconnects) :
              pending_disconnects[j] = pending_disconnects[k] => j = k

\* An endpoint registered again while its locals are being cleared is new.
ClearedIsNew ==
    pc = "clear_locals" /\ Leaving \in endpoints => Leaving \in new_endpoints

SessionInv ==
    /\ ClientsRegistered
    /\ NewRegistered
    /\ DisconnectsOfClients
    /\ ClearedIsNew
    /\ RegistriesAgree

\* Nothing is registered in the initial state.
LEMMA InitSession == Init => SessionInv
<1>1. DOMAIN EmptyMap = {}
  BY DEF EmptyMap
<1> QED
  BY <1>1
     DEF Init, SessionInv, ClientsRegistered, NewRegistered,
         DisconnectsOfClients, ClearedIsNew, RegistriesAgree, Dropping

\* Every step keeps the registries in agreement when no client is disconnected
\* twice. The steps that matter are a registration during a disconnect, the
\* erasure of an endpoint, and the announcement of the new ones.
LEMMA NextSession ==
    ASSUME ~RepeatDisconnect
    PROVE  TypeInv /\ TypeInv' /\ LockInv /\ SessionInv /\ [Next]_vars
             => SessionInv'
<1> SUFFICES ASSUME TypeInv, TypeInv', LockInv, SessionInv, [Next]_vars
             PROVE  SessionInv'
  OBVIOUS
<1> USE ConstantsAssumption
    DEF SessionInv, ClientsRegistered, NewRegistered, DisconnectsOfClients,
        ClearedIsNew, RegistriesAgree, Dropping, Leaving,
        packetVars, localVars, sharedVars, tickVars, userVars
<1>0. /\ new_endpoints \subseteq Endpoint
      /\ endpoints \subseteq Endpoint
      /\ clients \subseteq Endpoint
      /\ DOMAIN endpoint_data \subseteq Endpoint
      /\ idx \in 0 .. MaxConcurrentThreads
      /\ pending_disconnects \in Seq(Endpoint)
      /\ Dropping => pending_disconnects # <<>>
  BY DEF TypeInv, TypeOK, TickInRange, BufferMap
<1>1. ASSUME NEW b \in Buffer, NEW i \in Slot, NEW e \in Endpoint,
             HandleNetworkPacket(b, i, e)
      PROVE  SessionInv'
  BY <1>0, <1>1 DEF HandleNetworkPacket
<1>2. ASSUME NEW f \in fibers, PacketFiber(f)
      PROVE  SessionInv'
  <2>1. CASE AppendKnown(f)
    BY <1>0, <2>1 DEF AppendKnown
  <2>2. CASE MissLocal(f)
    BY <1>0, <2>2 DEF MissLocal
  <2>3. CASE RegisterEndpoint(f)
    BY <1>0, <2>3 DEF RegisterEndpoint
  <2>4. CASE InsertEndpoint(f)
    BY <1>0, <2>4 DEF InsertEndpoint
  <2> QED
    BY <1>2, <2>1, <2>2, <2>3, <2>4 DEF PacketFiber
<1>3. CASE Tick
  <2>1. CASE TestNewEndpoints
    BY <1>0, <2>1 DEF TestNewEndpoints
  <2>2. CASE CreateClients
    BY <1>0, <2>2 DEF CreateClients
  <2>3. CASE TestPendingInputs
    BY <1>0, <2>3 DEF TestPendingInputs
  <2>4. CASE Accumulate
    BY <1>0, <2>4 DEF Accumulate
  <2>5. CASE DispatchInputs
    BY <1>0, <2>5 DEF DispatchInputs
  <2>6. CASE FinishInputs
    BY <1>0, <2>6 DEF FinishInputs
  <2>7. CASE EraseData
    BY <1>0, <2>7 DEF EraseData
  <2>8. CASE LockLocal
    BY <1>0, <2>8 DEF LockLocal
  <2>9. CASE EraseEndpoint
    BY <1>0, <2>9 DEF EraseEndpoint
  <2>10. CASE ClearLocal
    BY <1>0, <2>10 DEF ClearLocal
  <2>11. CASE OnDisconnected
    BY <1>0, <2>11 DEF OnDisconnected
  <2>12. CASE EndDisconnects
    BY <1>0, <2>12 DEF EndDisconnects
  <2> QED
    BY <1>3, <2>1, <2>2, <2>3, <2>4, <2>5, <2>6, <2>7, <2>8, <2>9, <2>10,
       <2>11, <2>12 DEF Tick
<1>4. ASSUME NEW e \in inputs, ClientInputs(e)
      PROVE  SessionInv'
  BY <1>0, <1>4 DEF ClientInputs
<1>5. ASSUME NEW e \in clients, Disconnect(e)
      PROVE  SessionInv'
  BY <1>0, <1>5 DEF Disconnect
<1>6. CASE UNCHANGED vars
  BY <1>6 DEF vars
<1> QED
  BY <1>1, <1>2, <1>3, <1>4, <1>5, <1>6 DEF Next

\* The three invariants together are inductive; what follows from them.
LEMMA SessionsInvariant ==
    ASSUME ~RepeatDisconnect
    PROVE  Spec => [](TypeInv /\ LockInv /\ SessionInv)
<1> QED
  BY InitType, NextType, InitLock, NextLock, InitSession, NextSession, PTL
     DEF Spec

\* The assert of the disconnect loop never fails as long as user code does not
\* disconnect a client twice: the endpoint it erases is registered.
THEOREM DisconnectAlwaysFinds ==
    ASSUME ~RepeatDisconnect
    PROVE  Spec => []DisconnectFindsEndpoint
<1>1. TypeInv /\ SessionInv => DisconnectFindsEndpoint
  BY DEF TypeInv, TypeOK, TickInRange, Dropping, SessionInv,
         ClientsRegistered, DisconnectsOfClients, DisconnectFindsEndpoint,
         Leaving
<1> QED
  BY <1>1, SessionsInvariant, PTL

\* new_client and on_disconnected alternate under the same assumption.
THEOREM SessionsAlwaysAlternate ==
    ASSUME ~RepeatDisconnect
    PROVE  Spec => []SessionsAlternate
<1>1. SessionInv => SessionsAlternate
  BY DEF SessionInv, NewRegistered, SessionsAlternate
<1> QED
  BY <1>1, SessionsInvariant, PTL

\* The three registries agree under the same assumption.
THEOREM RegistriesAlwaysAgree ==
    ASSUME ~RepeatDisconnect
    PROVE  Spec => []RegistriesAgree
<1>1. SessionInv => RegistriesAgree
  BY DEF SessionInv
<1> QED
  BY <1>1, SessionsInvariant, PTL

----------------------------------------------------------------------------
(***************************************************************************)
(* What client_inputs() leaves behind.                                     *)
(***************************************************************************)

\* While the client_inputs() fibers run, those that have finished have emptied
\* their client's vector; from the wait for them to the end of the disconnects
\* nobody puts anything into one.
FinishedIsEmpty ==
    pc = "inputs" => \A e \in DOMAIN endpoint_data \ inputs : endpoint_data[e] = {}

DataInv == FinishedIsEmpty /\ ErasedDataIsEmpty

\* Every step keeps what the disconnects rely on.
LEMMA NextData == TypeInv /\ DataInv /\ [Next]_vars => DataInv'
<1> SUFFICES ASSUME TypeInv, DataInv, [Next]_vars PROVE DataInv'
  OBVIOUS
<1> USE DEF DataInv, FinishedIsEmpty, ErasedDataIsEmpty, TypeInv, TickInRange,
            packetVars, localVars, sharedVars, tickVars, userVars
<1>1. ASSUME NEW b \in Buffer, NEW i \in Slot, NEW e \in Endpoint,
             HandleNetworkPacket(b, i, e)
      PROVE  DataInv'
  BY <1>1 DEF HandleNetworkPacket
<1>2. ASSUME NEW f \in fibers, PacketFiber(f)
      PROVE  DataInv'
  BY <1>2 DEF PacketFiber, AppendKnown, MissLocal, RegisterEndpoint, InsertEndpoint
<1>3. CASE Tick
  <2>1. CASE TestNewEndpoints \/ CreateClients \/ TestPendingInputs \/ Accumulate
             \/ DispatchInputs
    BY <2>1 DEF TestNewEndpoints, CreateClients, TestPendingInputs, Accumulate,
                DispatchInputs
  <2>2. CASE FinishInputs
    BY <2>2 DEF FinishInputs
  <2>3. CASE EraseData
    BY <2>3 DEF EraseData
  <2>4. CASE LockLocal \/ EraseEndpoint \/ ClearLocal \/ OnDisconnected
             \/ EndDisconnects
    BY <2>4 DEF LockLocal, EraseEndpoint, ClearLocal, OnDisconnected, EndDisconnects
  <2> QED
    BY <1>3, <2>1, <2>2, <2>3, <2>4 DEF Tick
<1>4. ASSUME NEW e \in inputs, ClientInputs(e)
      PROVE  DataInv'
  BY <1>4 DEF ClientInputs
<1>5. ASSUME NEW e \in clients, Disconnect(e)
      PROVE  DataInv'
  BY <1>5 DEF Disconnect
<1>6. CASE UNCHANGED vars
  BY <1>6 DEF vars
<1> QED
  BY <1>1, <1>2, <1>3, <1>4, <1>5, <1>6 DEF Next

\* The types and the empty vectors, in every state.
LEMMA DataAlways == Spec => [](TypeInv /\ DataInv)
<1>1. Init => DataInv
  BY DEF Init, DataInv, FinishedIsEmpty, ErasedDataIsEmpty
<1> QED
  BY <1>1, InitType, NextType, NextData, PTL DEF Spec

\* A disconnect drops no buffer that tick() has gathered: the only inputs a client
\* loses are those still pending at a network thread.
THEOREM NoGatheredInputLost == Spec => []ErasedDataIsEmpty
<1>1. DataInv => ErasedDataIsEmpty
  BY DEF DataInv
<1> QED
  BY <1>1, DataAlways, PTL

----------------------------------------------------------------------------
(***************************************************************************)
(* Where a buffer is: OneOwner.                                            *)
(***************************************************************************)

\* One entry of each map. A step is described by what it does to these.
FiberFrom(b, e)    == \E f \in fibers : f.buffer = b /\ f.from = e
PendingAt(b, i, e) == e \in DOMAIN pending_inputs[i] /\ b \in pending_inputs[i][e]
DataOf(b, e)       == e \in DOMAIN endpoint_data /\ b \in endpoint_data[e]

\* A buffer is with one fiber, in one entry of one network thread, and in the data
\* of one client.
OneFiber == \A f, g \in fibers : f.buffer = g.buffer => f = g
OnePending ==
    \A b \in Buffer : \A i, j \in Slot : \A d, e \in Endpoint :
        PendingAt(b, i, d) /\ PendingAt(b, j, e) => i = j /\ d = e
OneData ==
    \A b \in Buffer : \A d, e \in Endpoint : DataOf(b, d) /\ DataOf(b, e) => d = e

\* It has a place, and never two; one that no packet was received into is nowhere.
InOnePlace(b) ==
    /\ b \in unused \/ InFiber(b) \/ InPending(b) \/ InData(b) \/ b \in delivered
          \/ b \in lost
    /\ b \in unused => ~(InFiber(b) \/ InPending(b) \/ InData(b)
                            \/ b \in delivered \/ b \in lost)
    /\ InFiber(b) => ~(InPending(b) \/ InData(b) \/ b \in delivered \/ b \in lost)
    /\ InPending(b) => ~(InData(b) \/ b \in delivered \/ b \in lost)
    /\ InData(b) => ~(b \in delivered \/ b \in lost)
    /\ b \in delivered => b \notin lost

OwnerInv ==
    /\ OneFiber
    /\ OnePending
    /\ OneData
    /\ \A b \in Buffer : InOnePlace(b)

\* Places in terms of entries.
PlacesAreEntries ==
    /\ \A b : InFiber(b) <=> \E e \in Endpoint : FiberFrom(b, e)
    /\ \A b : InPending(b) <=> \E i \in Slot : \E e \in Endpoint : PendingAt(b, i, e)
    /\ \A b : InData(b) <=> \E e \in Endpoint : DataOf(b, e)
    /\ \A b, e : FiberFrom(b, e) \/ DataOf(b, e) => b \in Buffer /\ e \in Endpoint
    /\ \A b, e : \A i \in Slot : PendingAt(b, i, e) => b \in Buffer /\ e \in Endpoint

\* Every buffer that is somewhere is in an entry.
LEMMA Places == TypeInv => PlacesAreEntries
<1> SUFFICES ASSUME TypeInv PROVE PlacesAreEntries
  OBVIOUS
<1>1. /\ \A f \in fibers : f.from \in Endpoint /\ f.buffer \in Buffer
      /\ \A i \in Slot : BufferMap(pending_inputs[i])
      /\ BufferMap(endpoint_data)
  BY DEF TypeInv, TypeOK, Fiber
<1>2. /\ \A b : InFiber(b) <=> \E e \in Endpoint : FiberFrom(b, e)
      /\ \A b, e : FiberFrom(b, e) => b \in Buffer /\ e \in Endpoint
  BY <1>1 DEF InFiber, FiberFrom
<1>3. /\ \A b : InPending(b) <=> \E i \in Slot : \E e \in Endpoint : PendingAt(b, i, e)
      /\ \A b, e : \A i \in Slot : PendingAt(b, i, e) => b \in Buffer /\ e \in Endpoint
  BY <1>1 DEF InPending, PendingAt, BufferMap
<1>4. /\ \A b : InData(b) <=> \E e \in Endpoint : DataOf(b, e)
      /\ \A b, e : DataOf(b, e) => b \in Buffer /\ e \in Endpoint
  BY <1>1 DEF InData, DataOf, BufferMap
<1> QED
  BY <1>2, <1>3, <1>4 DEF PlacesAreEntries

----------------------------------------------------------------------------
(***************************************************************************)
(* What each step does to the entries.                                     *)
(***************************************************************************)

\* No entry changes.
SameFibers  == \A b \in Buffer : \A e \in Endpoint : FiberFrom(b, e)' <=> FiberFrom(b, e)
SamePending == \A b \in Buffer : \A i \in Slot : \A e \in Endpoint :
                   PendingAt(b, i, e)' <=> PendingAt(b, i, e)
SameData    == \A b \in Buffer : \A e \in Endpoint : DataOf(b, e)' <=> DataOf(b, e)

\* A map that a step leaves alone keeps its entries.
LEMMA SameEntries ==
    /\ fibers' = fibers => SameFibers
    /\ pending_inputs' = pending_inputs => SamePending
    /\ endpoint_data' = endpoint_data => SameData
BY DEF SameFibers, SamePending, SameData, FiberFrom, PendingAt, DataOf

\* A packet that is received is with its fiber.
LEMMA ReceiveEntries ==
    ASSUME TypeInv, NEW c \in Buffer, NEW k \in Slot, NEW d \in Endpoint,
           HandleNetworkPacket(c, k, d)
    PROVE  /\ SamePending /\ SameData
           /\ \A b \in Buffer : \A e \in Endpoint :
                 FiberFrom(b, e)' <=> FiberFrom(b, e) \/ (b = c /\ e = d)
<1>1. PICK g : /\ g.buffer = c /\ g.from = d
               /\ fibers' = fibers \cup {g}
  BY DEF HandleNetworkPacket
<1>2. SamePending /\ SameData
  BY SameEntries DEF HandleNetworkPacket, localVars
<1> QED
  BY <1>1, <1>2 DEF FiberFrom

\* A packet fiber that only changes its stage keeps its buffer.
LEMMA StageEntries ==
    ASSUME fibers \subseteq Fiber, OneFiber, NEW f \in fibers,
           NEW s \in {"queued", "register", "insert"},
           fibers' = (fibers \ {f}) \cup {[f EXCEPT !.stage = s]}
    PROVE  OneFiber' /\ SameFibers
<1> DEFINE g == [f EXCEPT !.stage = s]
<1>1. g.buffer = f.buffer /\ g.from = f.from /\ fibers' = (fibers \ {f}) \cup {g}
  BY DEF Fiber
<1> HIDE DEF g
<1>2. OneFiber'
  BY <1>1 DEF OneFiber
<1>3. ASSUME NEW b, NEW e PROVE FiberFrom(b, e)' <=> FiberFrom(b, e)
  BY <1>1 DEF FiberFrom
<1> QED
  BY <1>2, <1>3 DEF SameFibers

\* A packet fiber that ends hands its buffer over to an entry of its thread.
LEMMA StoreEntries ==
    ASSUME TypeInv, OneFiber, NEW f \in fibers,
           AppendKnown(f) \/ InsertEndpoint(f)
    PROVE  /\ SameData /\ OneFiber'
           /\ FiberFrom(f.buffer, f.from)
           /\ \A b \in Buffer : \A e \in Endpoint :
                 FiberFrom(b, e)' <=> FiberFrom(b, e) /\ b # f.buffer
           /\ \A b \in Buffer : \A i \in Slot : \A e \in Endpoint :
                 PendingAt(b, i, e)' <=>
                    PendingAt(b, i, e) \/ (b = f.buffer /\ i = f.slot /\ e = f.from)
           /\ UNCHANGED <<unused, delivered, lost>>
           /\ f.slot \in Slot /\ f.from \in Endpoint /\ f.buffer \in Buffer
<1>1. /\ fibers' = fibers \ {f}
      /\ pending_inputs' =
           [pending_inputs EXCEPT ![f.slot] = AddTo(@, f.from, {f.buffer})]
      /\ UNCHANGED <<unused, endpoint_data, delivered, lost>>
  BY DEF AppendKnown, InsertEndpoint, userVars
<1>2. /\ f.slot \in Slot /\ f.from \in Endpoint /\ f.buffer \in Buffer
      /\ DOMAIN pending_inputs = Slot
  BY DEF TypeInv, TypeOK, Fiber
<1>3. SameData
  BY <1>1, SameEntries
<1>4. OneFiber' /\ FiberFrom(f.buffer, f.from)
  BY <1>1 DEF OneFiber, FiberFrom
<1>5. \A b, e : FiberFrom(b, e)' <=> FiberFrom(b, e) /\ b # f.buffer
  BY <1>1 DEF OneFiber, FiberFrom
<1>6. /\ \A i \in Slot \ {f.slot} : pending_inputs'[i] = pending_inputs[i]
      /\ pending_inputs'[f.slot] = AddTo(pending_inputs[f.slot], f.from, {f.buffer})
  BY <1>1, <1>2
<1>7. ASSUME NEW b, NEW i \in Slot, NEW e
      PROVE  PendingAt(b, i, e)' <=>
                PendingAt(b, i, e) \/ (b = f.buffer /\ i = f.slot /\ e = f.from)
  <2>1. CASE i = f.slot
    <3> DEFINE m == pending_inputs[f.slot]
               n == pending_inputs'[f.slot]
    <3>1. n = AddTo(m, f.from, {f.buffer})
      BY <1>6
    <3> HIDE DEF m, n
    <3>2. (e \in DOMAIN n /\ b \in n[e])
             <=> (e \in DOMAIN m /\ b \in m[e]) \/ (e = f.from /\ b = f.buffer)
      BY <3>1 DEF AddTo
    <3> QED
      BY <2>1, <3>2 DEF m, n, PendingAt
  <2>2. CASE i # f.slot
    BY <1>6, <2>2 DEF PendingAt
  <2> QED
    BY <2>1, <2>2
<1> QED
  BY <1>1, <1>2, <1>3, <1>4, <1>5, <1>7

\* tick() moves the buffers of one thread whose clients have data into that.
LEMMA AccumulateEntries ==
    ASSUME TypeInv, Accumulate
    PROVE  /\ SameFibers
           /\ idx \in Slot
           /\ DOMAIN endpoint_data' = DOMAIN endpoint_data
           /\ \A b \in Buffer : \A e \in Endpoint :
                 DataOf(b, e)' <=>
                    DataOf(b, e) \/ (e \in DOMAIN endpoint_data /\ PendingAt(b, idx, e))
           /\ \A b \in Buffer : \A i \in Slot : \A e \in Endpoint :
                 PendingAt(b, i, e)' <=>
                    PendingAt(b, i, e) /\ ~(i = idx /\ e \in DOMAIN endpoint_data)
           /\ UNCHANGED <<unused, fibers, delivered, lost>>
<1>1. /\ idx \in Slot /\ DOMAIN pending_inputs = Slot
      /\ idx \in 0 .. MaxConcurrentThreads /\ idx < MaxConcurrentThreads
      /\ UNCHANGED <<unused, fibers, delivered, lost>>
  BY ConstantsAssumption
     DEF TypeInv, TypeOK, TickInRange, Slot, Accumulate, packetVars, userVars
<1>2. /\ DOMAIN endpoint_data' = DOMAIN endpoint_data
      /\ \A e \in DOMAIN endpoint_data : endpoint_data'[e] =
            endpoint_data[e] \cup (IF e \in DOMAIN pending_inputs[idx]
                                   THEN pending_inputs[idx][e] ELSE {})
  BY DEF Accumulate
<1>3. \A b, e : DataOf(b, e)' <=>
          DataOf(b, e) \/ (e \in DOMAIN endpoint_data /\ PendingAt(b, idx, e))
  BY <1>2 DEF DataOf, PendingAt
<1>4. /\ \A i \in Slot \ {idx} : pending_inputs'[i] = pending_inputs[i]
      /\ pending_inputs'[idx] =
            [e \in DOMAIN pending_inputs[idx] |->
               IF e \in DOMAIN endpoint_data THEN {} ELSE pending_inputs[idx][e]]
  BY <1>1 DEF Accumulate
<1>5. ASSUME NEW b, NEW i \in Slot, NEW e
      PROVE  PendingAt(b, i, e)' <=>
                PendingAt(b, i, e) /\ ~(i = idx /\ e \in DOMAIN endpoint_data)
  <2>1. CASE i = idx
    BY <1>4, <2>1 DEF PendingAt
  <2>2. CASE i # idx
    BY <1>4, <2>2 DEF PendingAt
  <2> QED
    BY <2>1, <2>2
<1> QED
  BY <1>1, <1>2, <1>3, <1>5, SameEntries

\* client_inputs() is given the data of one client.
LEMMA InputsEntries ==
    ASSUME TypeInv, NEW c \in inputs, ClientInputs(c)
    PROVE  /\ SameFibers /\ SamePending
           /\ \A b \in Buffer : \A e \in Endpoint :
                 DataOf(b, e)' <=> DataOf(b, e) /\ e # c
           /\ c \in DOMAIN endpoint_data
           /\ delivered' = delivered \cup endpoint_data[c]
           /\ UNCHANGED <<unused, fibers, lost>>
<1>1. /\ c \in DOMAIN endpoint_data
      /\ endpoint_data' = [endpoint_data EXCEPT ![c] = {}]
      /\ UNCHANGED <<unused, fibers, pending_inputs, lost>>
  BY DEF TypeInv, TickInRange, ClientInputs, packetVars, localVars
<1>2. \A b, e : DataOf(b, e)' <=> DataOf(b, e) /\ e # c
  BY <1>1 DEF DataOf
<1> QED
  BY <1>1, <1>2, SameEntries DEF ClientInputs

\* Creating clients adds empty entries only.
LEMMA CreateEntries ==
    ASSUME CreateClients
    PROVE  SameFibers /\ SamePending /\ SameData
<1>1. \A b, e : DataOf(b, e)' <=> DataOf(b, e)
  BY DEF CreateClients, DataOf
<1> QED
  BY <1>1, SameEntries DEF CreateClients, packetVars, localVars, SameData

\* Erasing a client's data drops nothing: there is nothing in it.
LEMMA EraseEntries ==
    ASSUME DataInv, EraseData
    PROVE  SameFibers /\ SamePending /\ SameData /\ lost' = lost
<1>1. \A e \in DOMAIN endpoint_data : endpoint_data[e] = {}
  BY DEF DataInv, ErasedDataIsEmpty, EraseData
<1>2. lost' = lost
  BY <1>1 DEF EraseData
<1>3. \A b, e : ~DataOf(b, e) /\ ~DataOf(b, e)'
  BY <1>1 DEF EraseData, DataOf
<1> QED
  BY <1>2, <1>3, SameEntries DEF EraseData, packetVars, localVars, SameData

\* Clearing a local drops the buffers of its entry, if it has one.
LEMMA ClearEntries ==
    ASSUME TypeInv, ClearLocal
    PROVE  /\ SameFibers /\ SameData
           /\ idx \in Slot /\ Leaving \in Endpoint
           /\ \A b \in Buffer : \A i \in Slot : \A e \in Endpoint :
                 PendingAt(b, i, e)' <=>
                    PendingAt(b, i, e) /\ ~(i = idx /\ e = Leaving)
           /\ \A b : b \in lost' <=> b \in lost \/ PendingAt(b, idx, Leaving)
           /\ UNCHANGED <<unused, fibers, delivered>>
<1>1. /\ idx \in Slot /\ DOMAIN pending_inputs = Slot
      /\ local_endpoints[idx] = DOMAIN pending_inputs[idx]
      /\ UNCHANGED <<unused, fibers, endpoint_data, delivered>>
  <2>1. idx \in 0 .. MaxConcurrentThreads /\ idx < MaxConcurrentThreads
    BY DEF TypeInv, TypeOK, ClearLocal
  <2> QED
    BY <2>1, ConstantsAssumption
       DEF TypeInv, TypeOK, LocalMapsAgree, ClearLocal, Slot, packetVars
<1>2. Leaving \in Endpoint
  BY DEF TypeInv, TypeOK, TickInRange, Dropping, ClearLocal, Leaving
<1>3. CASE Leaving \in local_endpoints[idx]
  <2>1. /\ \A i \in Slot \ {idx} : pending_inputs'[i] = pending_inputs[i]
        /\ pending_inputs'[idx] = [e \in DOMAIN pending_inputs[idx] \ {Leaving} |->
                                      pending_inputs[idx][e]]
        /\ lost' = lost \cup pending_inputs[idx][Leaving]
    BY <1>1, <1>3 DEF ClearLocal
  <2>2. \A b : \A i \in Slot : \A e :
           PendingAt(b, i, e)' <=> PendingAt(b, i, e) /\ ~(i = idx /\ e = Leaving)
    <3> SUFFICES ASSUME NEW b, NEW i \in Slot, NEW e
                 PROVE  PendingAt(b, i, e)' <=>
                           PendingAt(b, i, e) /\ ~(i = idx /\ e = Leaving)
      OBVIOUS
    <3>1. CASE i = idx
      BY <2>1, <3>1 DEF PendingAt
    <3>2. CASE i # idx
      BY <2>1, <3>2 DEF PendingAt
    <3> QED
      BY <3>1, <3>2
  <2>3. \A b : b \in lost' <=> b \in lost \/ PendingAt(b, idx, Leaving)
    BY <1>1, <1>3, <2>1 DEF PendingAt
  <2> QED
    BY <1>1, <1>2, <2>2, <2>3, SameEntries
<1>4. CASE Leaving \notin local_endpoints[idx]
  <2>1. UNCHANGED <<pending_inputs, lost>>
    BY <1>4 DEF ClearLocal
  <2>2. \A b : ~PendingAt(b, idx, Leaving)
    BY <1>1, <1>4 DEF PendingAt
  <2> QED
    BY <1>1, <1>2, <2>1, <2>2, SameEntries DEF SamePending
<1> QED
  BY <1>3, <1>4

----------------------------------------------------------------------------
(***************************************************************************)
(* No step copies a buffer, and none forgets one.                          *)
(***************************************************************************)

\* The maps are empty in the initial state.
LEMMA InitOwner == Init => OwnerInv
BY DEF Init, OwnerInv, OneFiber, OnePending, OneData, InOnePlace, InFiber, InPending,
       InData, PendingAt, DataOf, EmptyMap

\* What the places of the buffers depend on.
LEMMA SamePlaces ==
    ASSUME TypeInv, TypeInv', OwnerInv, SameFibers, SamePending, SameData, OneFiber',
           UNCHANGED <<unused, delivered, lost>>
    PROVE  OwnerInv'
<1>0. PlacesAreEntries /\ PlacesAreEntries'
  BY Places, PTL
<1>1. \A b \in Buffer : /\ InFiber(b)' <=> InFiber(b)
                        /\ InPending(b)' <=> InPending(b)
                        /\ InData(b)' <=> InData(b)
  BY <1>0 DEF PlacesAreEntries, SameFibers, SamePending, SameData
<1>2. OnePending' /\ OneData'
  BY DEF OwnerInv, OnePending, OneData, SamePending, SameData
<1>3. \A b \in Buffer : InOnePlace(b)'
  BY <1>1 DEF OwnerInv, InOnePlace
<1> QED
  BY <1>2, <1>3 DEF OwnerInv

\* Every step keeps each buffer in one place: where it takes one from a map, it
\* puts it into another, or hands it over, or counts it lost.
LEMMA NextOwner ==
    TypeInv /\ TypeInv' /\ DataInv /\ OwnerInv /\ [Next]_vars => OwnerInv'
<1> SUFFICES ASSUME TypeInv, TypeInv', DataInv, OwnerInv, [Next]_vars
             PROVE  OwnerInv'
  OBVIOUS
<1>0. /\ PlacesAreEntries /\ PlacesAreEntries'
      /\ OneFiber /\ OnePending /\ OneData /\ \A b \in Buffer : InOnePlace(b)
      /\ fibers \subseteq Fiber
  BY Places, PTL DEF OwnerInv, TypeInv, TypeOK
<1> USE DEF packetVars, localVars, sharedVars, tickVars, userVars
<1>q. ASSUME UNCHANGED <<unused, fibers, pending_inputs, endpoint_data, delivered, lost>>
      PROVE  OwnerInv'
  BY <1>0, <1>q, SameEntries, SamePlaces DEF OneFiber
<1>1. ASSUME NEW c \in Buffer, NEW i \in Slot, NEW d \in Endpoint,
             HandleNetworkPacket(c, i, d)
      PROVE  OwnerInv'
  <2>1. /\ SamePending /\ SameData
        /\ \A b \in Buffer : \A e \in Endpoint :
              FiberFrom(b, e)' <=> FiberFrom(b, e) \/ (b = c /\ e = d)
        /\ c \in unused /\ unused' = unused \ {c}
        /\ UNCHANGED <<delivered, lost>>
    BY <1>1, ReceiveEntries DEF HandleNetworkPacket
  <2>2. OneFiber'
    <3>1. PICK g : g.buffer = c /\ fibers' = fibers \cup {g}
      BY <1>1 DEF HandleNetworkPacket
    <3>2. \A f \in fibers : f.buffer # c
      BY <1>0, <2>1 DEF InOnePlace, InFiber
    <3> QED
      BY <1>0, <3>1, <3>2 DEF OneFiber
  <2>3. \A b \in Buffer : /\ InFiber(b)' <=> InFiber(b) \/ b = c
                          /\ InPending(b)' <=> InPending(b)
                          /\ InData(b)' <=> InData(b)
    BY <1>0, <2>1 DEF PlacesAreEntries, SamePending, SameData
  <2>4. \A b \in Buffer : InOnePlace(b)'
    BY <1>0, <2>1, <2>3 DEF InOnePlace
  <2> QED
    BY <1>0, <2>1, <2>2, <2>4 DEF OwnerInv, OnePending, OneData, SamePending, SameData
<1>2. ASSUME NEW f \in fibers, PacketFiber(f)
      PROVE  OwnerInv'
  <2>1. CASE MissLocal(f)
    <3>1. OneFiber' /\ SameFibers
      BY <1>0, <2>1, StageEntries DEF MissLocal
    <3> QED
      BY <2>1, <3>1, SameEntries, SamePlaces DEF MissLocal
  <2>2. CASE RegisterEndpoint(f)
    <3>1. OneFiber' /\ SameFibers
      BY <1>0, <2>2, StageEntries DEF RegisterEndpoint
    <3> QED
      BY <2>2, <3>1, SameEntries, SamePlaces DEF RegisterEndpoint
  <2>3. CASE AppendKnown(f) \/ InsertEndpoint(f)
    <3> DEFINE c == f.buffer
    <3>1. /\ SameData /\ OneFiber'
          /\ FiberFrom(c, f.from)
          /\ \A b \in Buffer : \A e \in Endpoint :
                FiberFrom(b, e)' <=> FiberFrom(b, e) /\ b # c
          /\ \A b \in Buffer : \A i \in Slot : \A e \in Endpoint :
                PendingAt(b, i, e)' <=>
                   PendingAt(b, i, e) \/ (b = c /\ i = f.slot /\ e = f.from)
          /\ UNCHANGED <<unused, delivered, lost>>
          /\ f.slot \in Slot /\ f.from \in Endpoint /\ c \in Buffer
      BY <1>0, <2>3, StoreEntries
    <3> HIDE DEF c
    <3>2. InFiber(c) /\ ~InPending(c) /\ ~InData(c) /\ c \notin unused
          /\ c \notin delivered /\ c \notin lost
      BY <1>0, <3>1 DEF PlacesAreEntries, InOnePlace
    <3>3. \A b \in Buffer : /\ InFiber(b)' <=> InFiber(b) /\ b # c
                            /\ InPending(b)' <=> InPending(b) \/ b = c
                            /\ InData(b)' <=> InData(b)
      BY <1>0, <3>1 DEF PlacesAreEntries, SameData
    <3>4. \A b \in Buffer : InOnePlace(b)'
      BY <1>0, <3>1, <3>2, <3>3 DEF InOnePlace
    <3>5. \A i \in Slot : \A e \in Endpoint : ~PendingAt(c, i, e)
      BY <1>0, <3>1, <3>2 DEF PlacesAreEntries
    <3>6. OnePending' /\ OneData'
      BY <1>0, <3>1, <3>5 DEF OnePending, OneData, SameData
    <3> QED
      BY <3>1, <3>4, <3>6 DEF OwnerInv
  <2> QED
    BY <1>2, <2>1, <2>2, <2>3 DEF PacketFiber
<1>3. CASE Tick
  <2>1. CASE TestNewEndpoints \/ TestPendingInputs \/ DispatchInputs \/ FinishInputs
             \/ LockLocal \/ EraseEndpoint \/ OnDisconnected \/ EndDisconnects
    BY <1>q, <2>1 DEF TestNewEndpoints, TestPendingInputs, DispatchInputs, FinishInputs,
       LockLocal, EraseEndpoint, OnDisconnected, EndDisconnects
  <2>2. CASE CreateClients
    <3>1. OneFiber' /\ UNCHANGED <<unused, delivered, lost>>
      BY <1>0, <2>2 DEF CreateClients, OneFiber
    <3> QED
      BY <2>2, <3>1, CreateEntries, SamePlaces
  <2>3. CASE Accumulate
    <3>1. /\ SameFibers
          /\ idx \in Slot
          /\ \A b \in Buffer : \A e \in Endpoint :
                DataOf(b, e)' <=>
                   DataOf(b, e) \/ (e \in DOMAIN endpoint_data /\ PendingAt(b, idx, e))
          /\ \A b \in Buffer : \A i \in Slot : \A e \in Endpoint :
                PendingAt(b, i, e)' <=>
                   PendingAt(b, i, e) /\ ~(i = idx /\ e \in DOMAIN endpoint_data)
          /\ UNCHANGED <<unused, fibers, delivered, lost>>
      BY <2>3, AccumulateEntries
    <3> DEFINE Moved(b) == \E e \in Endpoint :
                  e \in DOMAIN endpoint_data /\ PendingAt(b, idx, e)
    <3>2. \A b \in Buffer : Moved(b) => InPending(b) /\ ~InData(b)
      BY <1>0, <3>1 DEF PlacesAreEntries, InOnePlace
    <3>3. \A b \in Buffer : /\ InFiber(b)' <=> InFiber(b)
                            /\ InPending(b)' <=> InPending(b) /\ ~Moved(b)
                            /\ InData(b)' <=> InData(b) \/ Moved(b)
      <4> SUFFICES ASSUME NEW b \in Buffer
                   PROVE  /\ InFiber(b)' <=> InFiber(b)
                          /\ InPending(b)' <=> InPending(b) /\ ~Moved(b)
                          /\ InData(b)' <=> InData(b) \/ Moved(b)
        OBVIOUS
      <4>1. InPending(b)' => InPending(b) /\ ~Moved(b)
        BY <1>0, <3>1 DEF PlacesAreEntries, OnePending
      <4>2. InPending(b) /\ ~Moved(b) => InPending(b)'
        BY <1>0, <3>1 DEF PlacesAreEntries
      <4>3. InFiber(b)' <=> InFiber(b)
        BY <1>0, <3>1 DEF PlacesAreEntries, SameFibers
      <4>4. InData(b)' <=> InData(b) \/ Moved(b)
        BY <1>0, <3>1 DEF PlacesAreEntries
      <4> QED
        BY <4>1, <4>2, <4>3, <4>4
    <3>4. \A b \in Buffer : InOnePlace(b)'
      <4> HIDE DEF Moved
      <4> QED
        BY <1>0, <3>1, <3>2, <3>3 DEF InOnePlace
    <3>5. OnePending' /\ OneFiber'
      BY <1>0, <3>1 DEF OnePending, OneFiber
    <3>6. OneData'
      <4> SUFFICES ASSUME NEW b \in Buffer, NEW d \in Endpoint, NEW e \in Endpoint,
                          DataOf(b, d)', DataOf(b, e)'
                   PROVE  d = e
        BY DEF OneData
      <4>1. \A x \in Endpoint : DataOf(b, x) => InData(b)
        BY <1>0 DEF PlacesAreEntries
      <4>2. CASE Moved(b)
        BY <1>0, <3>1, <3>2, <4>1, <4>2 DEF OnePending
      <4>3. CASE ~Moved(b)
        BY <1>0, <3>1, <4>3 DEF OneData
      <4> QED
        BY <4>2, <4>3
    <3> QED
      BY <3>4, <3>5, <3>6 DEF OwnerInv
  <2>4. CASE EraseData
    <3>1. OneFiber' /\ UNCHANGED <<unused, delivered>>
      BY <1>0, <2>4 DEF EraseData, OneFiber
    <3> QED
      BY <2>4, <3>1, EraseEntries, SamePlaces
  <2>5. CASE ClearLocal
    <3>1. /\ SameFibers /\ SameData
          /\ idx \in Slot /\ Leaving \in Endpoint
          /\ \A b \in Buffer : \A i \in Slot : \A e \in Endpoint :
                PendingAt(b, i, e)' <=>
                   PendingAt(b, i, e) /\ ~(i = idx /\ e = Leaving)
          /\ \A b : b \in lost' <=> b \in lost \/ PendingAt(b, idx, Leaving)
          /\ UNCHANGED <<unused, fibers, delivered>>
      BY <2>5, ClearEntries
    <3> DEFINE Dropped(b) == PendingAt(b, idx, Leaving)
    <3>2. \A b \in Buffer : Dropped(b) => InPending(b)
      BY <1>0, <3>1 DEF PlacesAreEntries
    <3>3. \A b \in Buffer : /\ InFiber(b)' <=> InFiber(b)
                            /\ InPending(b)' <=> InPending(b) /\ ~Dropped(b)
                            /\ InData(b)' <=> InData(b)
                            /\ b \in lost' <=> b \in lost \/ Dropped(b)
      <4> SUFFICES ASSUME NEW b \in Buffer
                   PROVE  /\ InFiber(b)' <=> InFiber(b)
                          /\ InPending(b)' <=> InPending(b) /\ ~Dropped(b)
                          /\ InData(b)' <=> InData(b)
                          /\ b \in lost' <=> b \in lost \/ Dropped(b)
        OBVIOUS
      <4>1. InPending(b)' => InPending(b) /\ ~Dropped(b)
        BY <1>0, <3>1 DEF PlacesAreEntries, OnePending
      <4>2. InPending(b) /\ ~Dropped(b) => InPending(b)'
        BY <1>0, <3>1 DEF PlacesAreEntries
      <4>3. InFiber(b)' <=> InFiber(b)
        BY <1>0, <3>1 DEF PlacesAreEntries, SameFibers
      <4>4. InData(b)' <=> InData(b)
        BY <1>0, <3>1 DEF PlacesAreEntries, SameData
      <4> QED
        BY <3>1, <4>1, <4>2, <4>3, <4>4
    <3>4. \A b \in Buffer : InOnePlace(b)'
      <4> HIDE DEF Dropped
      <4> QED
        BY <1>0, <3>1, <3>2, <3>3 DEF InOnePlace
    <3>5. OnePending' /\ OneFiber' /\ OneData'
      BY <1>0, <3>1 DEF OnePending, OneFiber, OneData, SameData
    <3> QED
      BY <3>4, <3>5 DEF OwnerInv
  <2> QED
    BY <1>3, <2>1, <2>2, <2>3, <2>4, <2>5 DEF Tick
<1>4. ASSUME NEW c \in inputs, ClientInputs(c)
      PROVE  OwnerInv'
  <2>1. /\ SameFibers /\ SamePending
        /\ \A b \in Buffer : \A e \in Endpoint : DataOf(b, e)' <=> DataOf(b, e) /\ e # c
        /\ UNCHANGED <<unused, fibers, lost>>
        /\ \A b : b \in delivered' <=> b \in delivered \/ DataOf(b, c)
    BY <1>4, InputsEntries DEF DataOf
  <2>2. c \in Endpoint
    BY DEF TypeInv, TypeOK
  <2>3. \A b \in Buffer : /\ InFiber(b)' <=> InFiber(b)
                          /\ InPending(b)' <=> InPending(b)
                          /\ InData(b)' <=> InData(b) /\ ~DataOf(b, c)
                          /\ DataOf(b, c) => InData(b)
    <3> SUFFICES ASSUME NEW b \in Buffer
                 PROVE  /\ InFiber(b)' <=> InFiber(b)
                        /\ InPending(b)' <=> InPending(b)
                        /\ InData(b)' <=> InData(b) /\ ~DataOf(b, c)
                        /\ DataOf(b, c) => InData(b)
      OBVIOUS
    <3>1. (InFiber(b)' <=> InFiber(b)) /\ (InPending(b)' <=> InPending(b))
      BY <1>0, <2>1 DEF PlacesAreEntries, SameFibers, SamePending
    <3>2. InData(b)' => InData(b) /\ ~DataOf(b, c)
      BY <1>0, <2>1, <2>2 DEF PlacesAreEntries, OneData
    <3>3. InData(b) /\ ~DataOf(b, c) => InData(b)'
      BY <1>0, <2>1 DEF PlacesAreEntries
    <3>4. DataOf(b, c) => InData(b)
      BY <1>0, <2>2 DEF PlacesAreEntries
    <3> QED
      BY <3>1, <3>2, <3>3, <3>4
  <2>4. \A b \in Buffer : InOnePlace(b)'
    BY <1>0, <2>1, <2>3 DEF InOnePlace
  <2>5. OnePending' /\ OneFiber' /\ OneData'
    BY <1>0, <2>1 DEF OnePending, OneFiber, OneData, SamePending
  <2> QED
    BY <2>4, <2>5 DEF OwnerInv
<1>5. ASSUME NEW e \in clients, Disconnect(e)
      PROVE  OwnerInv'
  BY <1>5, <1>q DEF Disconnect
<1>6. CASE UNCHANGED vars
  BY <1>6, <1>q DEF vars
<1> QED
  BY <1>1, <1>2, <1>3, <1>4, <1>5, <1>6 DEF Next

\* Types, empty vectors and owners, in every state.
LEMMA OwnersAlways == Spec => [](TypeInv /\ DataInv /\ OwnerInv)
<1> QED
  BY InitType, NextType, InitOwner, NextOwner, DataAlways, PTL DEF Spec

\* A buffer that is in no two entries has one owner.
LEMMA OwnerMeansOne == TypeInv /\ OwnerInv => OneOwner
<1> SUFFICES ASSUME TypeInv, OwnerInv, NEW b \in Buffer \ unused
             PROVE  /\ InOnePlace(b)
                    /\ \A i, j \in Slot :
                          \A d \in DOMAIN pending_inputs[i],
                             e \in DOMAIN pending_inputs[j] :
                             b \in pending_inputs[i][d] \cap pending_inputs[j][e]
                                => i = j /\ d = e
  BY DEF OneOwner, InOnePlace
<1>1. \A i \in Slot : DOMAIN pending_inputs[i] \subseteq Endpoint
  BY DEF TypeInv, TypeOK, BufferMap
<1> QED
  BY <1>1 DEF OwnerInv, OnePending, PendingAt

\* Whatever the fibers of the packets, of client_inputs() and of tick() do, a
\* received buffer is in exactly one place until it is handed to the user or lost
\* with a disconnect; none is delivered twice, or to two clients.
THEOREM OneOwnerAlways == Spec => []OneOwner
<1> QED
  BY OwnerMeansOne, OwnersAlways, PTL

----------------------------------------------------------------------------
(***************************************************************************)
(* What Sessions needs besides: a client that is announced has a packet    *)
(* that waits, and what is delivered goes to a client.                     *)
(***************************************************************************)

\* Only clients have data, so only clients get client_inputs().
DataOfClients == DOMAIN endpoint_data \subseteq clients

\* An endpoint that waits to be announced has sent a packet that waits too, and
\* that the disconnect in progress will not drop before the announcement.
PacketWaits(e) ==
    \/ \E f \in fibers : f.from = e /\ f.stage = "insert"
    \/ \E i \in Slot : /\ \E b \in Buffer : PendingAt(b, i, e)
                       /\ ~StillToClear(i, e)
NewHasPacket == \A e \in new_endpoints : PacketWaits(e)

\* No endpoint has either in the initial state.
LEMMA InitClient == Init => DataOfClients /\ NewHasPacket
BY DEF Init, DataOfClients, NewHasPacket, EmptyMap

\* Every step keeps the data to clients.
LEMMA NextDataOfClients ==
    TypeInv /\ SessionInv /\ DataOfClients /\ [Next]_vars => DataOfClients'
<1> SUFFICES ASSUME TypeInv, SessionInv, DataOfClients, [Next]_vars
             PROVE  DataOfClients'
  OBVIOUS
<1> USE DEF DataOfClients, packetVars, localVars, sharedVars, tickVars, userVars
<1>1. ASSUME NEW b \in Buffer, NEW i \in Slot, NEW e \in Endpoint,
             HandleNetworkPacket(b, i, e)
      PROVE  DataOfClients'
  BY <1>1 DEF HandleNetworkPacket
<1>2. ASSUME NEW f \in fibers, PacketFiber(f)
      PROVE  DataOfClients'
  BY <1>2 DEF PacketFiber, AppendKnown, MissLocal, RegisterEndpoint, InsertEndpoint
<1>3. CASE Tick
  <2>1. CASE TestNewEndpoints \/ CreateClients \/ TestPendingInputs \/ Accumulate
             \/ DispatchInputs \/ FinishInputs \/ EraseData
    BY <2>1 DEF TestNewEndpoints, CreateClients, TestPendingInputs, Accumulate,
                DispatchInputs, FinishInputs, EraseData
  <2>2. CASE LockLocal \/ EraseEndpoint \/ ClearLocal \/ EndDisconnects
    BY <2>2 DEF LockLocal, EraseEndpoint, ClearLocal, EndDisconnects
  <2>3. CASE OnDisconnected
    BY <2>3 DEF OnDisconnected, SessionInv, RegistriesAgree, Dropping
  <2> QED
    BY <1>3, <2>1, <2>2, <2>3 DEF Tick
<1>4. ASSUME NEW e \in inputs, ClientInputs(e)
      PROVE  DataOfClients'
  BY <1>4 DEF ClientInputs
<1>5. ASSUME NEW e \in clients, Disconnect(e)
      PROVE  DataOfClients'
  BY <1>5 DEF Disconnect
<1>6. CASE UNCHANGED vars
  BY <1>6 DEF vars
<1> QED
  BY <1>1, <1>2, <1>3, <1>4, <1>5, <1>6 DEF Next

\* Every step keeps a packet for each endpoint that waits to be announced. A
\* disconnect drops none of them: it holds every local mutex when it erases the
\* endpoint, so what is announced after that is stored where it has cleared.
LEMMA NextNewHasPacket ==
    TypeInv /\ TypeInv' /\ LockInv /\ SessionInv /\ OneFiber /\ NewHasPacket /\ [Next]_vars
        => NewHasPacket'
<1> SUFFICES ASSUME TypeInv, TypeInv', LockInv, SessionInv, OneFiber, NewHasPacket,
                    [Next]_vars
             PROVE  NewHasPacket'
  OBVIOUS
<1>0. /\ fibers \subseteq Fiber /\ DOMAIN pending_inputs = Slot
      /\ idx \in 0 .. MaxConcurrentThreads /\ Slot \subseteq Int
      /\ new_endpoints \subseteq Endpoint
      /\ pending_disconnects \in Seq(Endpoint)
      /\ Dropping => pending_disconnects # <<>>
  BY ConstantsAssumption DEF TypeInv, TypeOK, TickInRange, Slot
<1> USE DEF packetVars, localVars, sharedVars, tickVars, userVars
<1>q. ASSUME new_endpoints' \subseteq new_endpoints,
             fibers \subseteq fibers', SamePending,
             \A i \in Slot : \A e \in new_endpoints : StillToClear(i, e)' => StillToClear(i, e)
      PROVE  NewHasPacket'
  BY <1>0, <1>q DEF NewHasPacket, PacketWaits, SamePending
<1>1. ASSUME NEW b \in Buffer, NEW i \in Slot, NEW e \in Endpoint,
             HandleNetworkPacket(b, i, e)
      PROVE  NewHasPacket'
  BY <1>1, <1>q, SameEntries DEF HandleNetworkPacket, StillToClear, Leaving
<1>2. ASSUME NEW f \in fibers, PacketFiber(f)
      PROVE  NewHasPacket'
  <2>0. f \in Fiber
    BY <1>0
  <2>1. CASE MissLocal(f)
    <3>1. \A g \in fibers : g.stage = "insert" => g \in fibers'
      BY <2>1 DEF MissLocal
    <3>2. SamePending /\ UNCHANGED <<new_endpoints, pc, idx, pending_disconnects>>
      BY <2>1, SameEntries DEF MissLocal
    <3> QED
      BY <1>0, <3>1, <3>2
         DEF NewHasPacket, PacketWaits, SamePending, StillToClear, Leaving
  <2>2. CASE RegisterEndpoint(f)
    <3> DEFINE g == [f EXCEPT !.stage = "insert"]
    <3>1. /\ g.from = f.from /\ g.stage = "insert" /\ g \in fibers'
          /\ \A h \in fibers : h.stage = "insert" => h \in fibers'
          /\ new_endpoints' \subseteq new_endpoints \cup {f.from}
      BY <2>0, <2>2 DEF RegisterEndpoint, Fiber
    <3> HIDE DEF g
    <3>2. SamePending /\ UNCHANGED <<pc, idx, pending_disconnects>>
      BY <2>2, SameEntries DEF RegisterEndpoint
    <3> QED
      BY <1>0, <3>1, <3>2
         DEF NewHasPacket, PacketWaits, SamePending, StillToClear, Leaving
  <2>3. CASE AppendKnown(f) \/ InsertEndpoint(f)
    <3>1. /\ \A b \in Buffer : \A i \in Slot : \A e \in Endpoint :
                PendingAt(b, i, e)' <=>
                   PendingAt(b, i, e) \/ (b = f.buffer /\ i = f.slot /\ e = f.from)
          /\ f.slot \in Slot /\ f.from \in Endpoint /\ f.buffer \in Buffer
      BY <2>3, StoreEntries
    <3>2. fibers' = fibers \ {f} /\ UNCHANGED <<new_endpoints, pc, idx, pending_disconnects>>
      BY <2>3 DEF AppendKnown, InsertEndpoint
    <3>3. ASSUME f.stage = "insert"
          PROVE  ~StillToClear(f.slot, f.from)'
      <4>1. local_mutex[f.slot] = "packet"
        BY <3>3 DEF LockInv, LocksHeld, Holds
      <4>2. ~TickHolds(f.slot)
        BY <3>1, <4>1 DEF LockInv, LocksHeld
      <4> QED
        BY <3>2, <4>2 DEF TickHolds, StillToClear
    <3>4. PendingAt(f.buffer, f.slot, f.from)'
      BY <3>1
    <3> SUFFICES ASSUME NEW e \in new_endpoints
                 PROVE  PacketWaits(e)'
      BY <3>2 DEF NewHasPacket
    <3>5. ASSUME NEW g \in fibers, g.from = e, g.stage = "insert"
          PROVE  PacketWaits(e)'
      <4>1. CASE g = f
        BY <3>1, <3>3, <3>4, <3>5, <4>1 DEF PacketWaits
      <4>2. CASE g # f
        BY <3>2, <3>5, <4>2 DEF PacketWaits
      <4> QED
        BY <4>1, <4>2
    <3>6. ASSUME NEW i \in Slot, NEW b \in Buffer, PendingAt(b, i, e), ~StillToClear(i, e)
          PROVE  PacketWaits(e)'
      <4>1. PendingAt(b, i, e)' /\ ~StillToClear(i, e)'
        BY <1>0, <3>1, <3>2, <3>6 DEF StillToClear, Leaving
      <4> QED
        BY <4>1 DEF PacketWaits
    <3> QED
      BY <3>5, <3>6 DEF NewHasPacket, PacketWaits
  <2> QED
    BY <1>2, <2>1, <2>2, <2>3 DEF PacketFiber
<1>3. CASE Tick
  <2>1. CASE TestNewEndpoints \/ TestPendingInputs \/ DispatchInputs \/ FinishInputs
             \/ LockLocal \/ OnDisconnected \/ EndDisconnects
    BY <1>q, <2>1, SameEntries DEF TestNewEndpoints, TestPendingInputs, DispatchInputs,
       FinishInputs, LockLocal, OnDisconnected, EndDisconnects, StillToClear
  <2>2. CASE CreateClients
    BY <2>2 DEF CreateClients, NewHasPacket
  <2>3. CASE Accumulate
    <3>1. new_endpoints \cap DOMAIN endpoint_data = {}
      BY DEF SessionInv, RegistriesAgree
    <3>2. \A b \in Buffer : \A i \in Slot : \A e \in new_endpoints :
             PendingAt(b, i, e)' <=> PendingAt(b, i, e)
      BY <1>0, <2>3, <3>1, AccumulateEntries
    <3>3. /\ \A i, e : ~StillToClear(i, e)'
          /\ UNCHANGED <<fibers, new_endpoints>>
      BY <2>3 DEF Accumulate, StillToClear
    <3> QED
      BY <3>2, <3>3 DEF NewHasPacket, PacketWaits
  <2>4. CASE EraseData
    BY <1>q, <2>4, SameEntries DEF EraseData, StillToClear
  <2>5. CASE EraseEndpoint
    <3>1. Leaving \notin new_endpoints
      <4>1. Leaving \in clients
        BY <1>0, <2>5 DEF EraseEndpoint, SessionInv, DisconnectsOfClients, Leaving, Dropping
      <4> QED
        BY <2>5, <4>1 DEF EraseEndpoint, SessionInv, NewRegistered
    <3>2. \A i \in Slot : \A e \in new_endpoints : ~StillToClear(i, e)'
      BY <2>5, <3>1 DEF EraseEndpoint, StillToClear, Leaving
    <3> QED
      BY <1>q, <2>5, <3>2, SameEntries DEF EraseEndpoint
  <2>6. CASE ClearLocal
    <3>1. /\ idx \in Slot /\ Leaving \in Endpoint
          /\ \A b \in Buffer : \A i \in Slot : \A e \in Endpoint :
                PendingAt(b, i, e)' <=>
                   PendingAt(b, i, e) /\ ~(i = idx /\ e = Leaving)
      BY <2>6, ClearEntries
    <3>2. \A i \in Slot : \A e : StillToClear(i, e)' => StillToClear(i, e)
      BY <1>0, <2>6 DEF ClearLocal, StillToClear, Leaving
    <3>3. StillToClear(idx, Leaving)
      BY <1>0, <2>6 DEF ClearLocal, StillToClear
    <3>4. UNCHANGED <<fibers, new_endpoints>>
      BY <2>6 DEF ClearLocal
    <3>5. \A b \in Buffer : \A i \in Slot : \A e \in Endpoint :
             PendingAt(b, i, e) /\ ~StillToClear(i, e) => PendingAt(b, i, e)'
      BY <3>1, <3>3
    <3> QED
      BY <1>0, <3>2, <3>4, <3>5 DEF NewHasPacket, PacketWaits
  <2> QED
    BY <1>3, <2>1, <2>2, <2>3, <2>4, <2>5, <2>6 DEF Tick
<1>4. ASSUME NEW e \in inputs, ClientInputs(e)
      PROVE  NewHasPacket'
  BY <1>4, <1>q, SameEntries DEF ClientInputs, StillToClear, Leaving
<1>5. ASSUME NEW e \in clients, Disconnect(e)
      PROVE  NewHasPacket'
  <2>1. \A i, d : StillToClear(i, d)' => StillToClear(i, d)
    BY <1>0, <1>5 DEF Disconnect, StillToClear, Leaving, Dropping
  <2> QED
    BY <1>5, <1>q, <2>1, SameEntries DEF Disconnect
<1>6. CASE UNCHANGED vars
  BY <1>6, <1>q, SameEntries DEF vars, StillToClear, Leaving
<1> QED
  BY <1>1, <1>2, <1>3, <1>4, <1>5, <1>6 DEF Next

----------------------------------------------------------------------------
(***************************************************************************)
(* NetworkPlugin implements Sessions.                                      *)
(***************************************************************************)

\* The mapping of a state: the clients whose disconnect was asked for, and what
\* waits for each endpoint.
AskedFor == {pending_disconnects[k] : k \in 1 .. Len(pending_disconnects)}
Mailbox  == [e \in Endpoint |-> Waiting(e)]

\* What waits for an endpoint is in the entries of the maps.
WaitingIsEntries ==
    \A e \in Endpoint : \A b :
        b \in Waiting(e) <=> \/ FiberFrom(b, e)
                             \/ \E i \in Slot : PendingAt(b, i, e)
                             \/ DataOf(b, e)

\* This is what Waiting says.
LEMMA WaitingEntries == TypeInv => WaitingIsEntries
<1> SUFFICES ASSUME TypeInv, NEW e \in Endpoint, NEW b
             PROVE  b \in Waiting(e) <=> \/ FiberFrom(b, e)
                                         \/ \E i \in Slot : PendingAt(b, i, e)
                                         \/ DataOf(b, e)
  BY DEF WaitingIsEntries
<1>1. b \in Waiting(e) <=>
          \/ b \in {f.buffer : f \in {g \in fibers : g.from = e}}
          \/ b \in UNION {pending_inputs[i][e] :
                             i \in {j \in Slot : e \in DOMAIN pending_inputs[j]}}
          \/ b \in (IF e \in DOMAIN endpoint_data THEN endpoint_data[e] ELSE {})
  BY DEF Waiting
<1>2. b \in {f.buffer : f \in {g \in fibers : g.from = e}} <=> FiberFrom(b, e)
  BY DEF FiberFrom
<1>3. b \in UNION {pending_inputs[i][e] : i \in {j \in Slot : e \in DOMAIN pending_inputs[j]}}
         <=> \E i \in Slot : PendingAt(b, i, e)
  BY DEF PendingAt
<1>4. b \in (IF e \in DOMAIN endpoint_data THEN endpoint_data[e] ELSE {}) <=> DataOf(b, e)
  BY DEF DataOf
<1> QED
  BY <1>1, <1>2, <1>3, <1>4

\* The inductive invariant of the refinement.
RefinementInv ==
    /\ TypeInv /\ LockInv /\ SessionInv
    /\ DataInv /\ OwnerInv
    /\ DataOfClients /\ NewHasPacket

\* A step that changes no entry changes no mailbox.
LEMMA SameMailbox ==
    ASSUME TypeInv, TypeInv', SameFibers, SamePending, SameData
    PROVE  Mailbox' = Mailbox
<1>1. WaitingIsEntries /\ WaitingIsEntries' /\ PlacesAreEntries /\ PlacesAreEntries'
  BY WaitingEntries, Places, PTL
<1>2. ASSUME NEW e \in Endpoint PROVE Waiting(e)' = Waiting(e)
  <2>1. \A b : b \in Waiting(e)' => b \in Waiting(e)
    BY <1>1 DEF WaitingIsEntries, PlacesAreEntries, SameFibers, SamePending, SameData
  <2>2. \A b : b \in Waiting(e) => b \in Waiting(e)'
    BY <1>1 DEF WaitingIsEntries, PlacesAreEntries, SameFibers, SamePending, SameData
  <2> QED
    BY <2>1, <2>2
<1> QED
  BY <1>2 DEF Mailbox

\* The initial state maps to that of Sessions.
LEMMA InitImplements == Init => Abstract!Init
<1> SUFFICES ASSUME Init PROVE Abstract!Init
  OBVIOUS
<1>1. TypeInv
  BY InitType
<1>2. \A e \in Endpoint : \A b : b \notin Waiting(e)
  BY <1>1, WaitingEntries
     DEF WaitingIsEntries, Init, FiberFrom, PendingAt, DataOf, EmptyMap
<1>3. \A e \in Endpoint : Waiting(e) = {}
  BY <1>2
<1>4. AskedFor = {}
  BY DEF Init, AskedFor
<1> QED
  BY <1>3, <1>4 DEF Init, Abstract!Init, AskedFor

\* A step that changes neither the mailboxes nor what the user knows stutters.
LEMMA Stutters ==
    ASSUME Mailbox' = Mailbox, UNCHANGED <<clients, pending_disconnects, delivered, lost>>
    PROVE  UNCHANGED Abstract!vars
BY DEF Abstract!vars, Mailbox

\* Every step of the plugin is a step of Sessions, or changes nothing there. A
\* packet is received when its fiber is pushed; it is delivered when its client's
\* client_inputs() runs, wherever it has been meanwhile.
LEMMA NextImplements ==
    ASSUME ~RepeatDisconnect
    PROVE  RefinementInv /\ RefinementInv' /\ [Next]_vars
              => [Abstract!Next]_Abstract!vars
<1> SUFFICES ASSUME RefinementInv, RefinementInv', [Next]_vars
             PROVE  Abstract!Next \/ UNCHANGED Abstract!vars
  OBVIOUS
<1>0. /\ TypeInv /\ TypeInv' /\ LockInv /\ SessionInv /\ DataInv /\ OwnerInv
      /\ OwnerInv' /\ OneFiber /\ OnePending /\ OneData
      /\ \A b \in Buffer : InOnePlace(b)
      /\ DataOfClients /\ NewHasPacket
      /\ fibers \subseteq Fiber /\ clients \subseteq Endpoint
      /\ new_endpoints \subseteq Endpoint
      /\ pending_disconnects \in Seq(Endpoint)
      /\ Dropping => pending_disconnects # <<>>
  BY DEF RefinementInv, OwnerInv, TypeInv, TypeOK, TickInRange
<1>00. /\ WaitingIsEntries /\ WaitingIsEntries'
       /\ PlacesAreEntries /\ PlacesAreEntries'
  BY <1>0, WaitingEntries, Places, PTL
<1> USE DEF packetVars, localVars, sharedVars, tickVars, userVars
<1>q. ASSUME SameFibers, SamePending, SameData,
             UNCHANGED <<clients, pending_disconnects, delivered, lost>>
      PROVE  UNCHANGED Abstract!vars
  BY <1>0, <1>q, SameMailbox, Stutters
<1>1. ASSUME NEW c \in Buffer, NEW i \in Slot, NEW d \in Endpoint,
             HandleNetworkPacket(c, i, d)
      PROVE  Abstract!Next
  <2>1. /\ SamePending /\ SameData
        /\ \A b \in Buffer : \A e \in Endpoint :
              FiberFrom(b, e)' <=> FiberFrom(b, e) \/ (b = c /\ e = d)
        /\ c \in unused
        /\ UNCHANGED <<clients, pending_disconnects, delivered, lost>>
    BY <1>0, <1>1, ReceiveEntries DEF HandleNetworkPacket
  <2>2. c \notin Abstract!Known
    <3>1. ~InFiber(c) /\ ~InPending(c) /\ ~InData(c) /\ c \notin delivered /\ c \notin lost
      BY <1>0, <2>1 DEF InOnePlace
    <3>2. \A e \in Endpoint : c \notin Waiting(e)
      BY <1>00, <3>1 DEF WaitingIsEntries, PlacesAreEntries
    <3> QED
      BY <3>1, <3>2 DEF Abstract!Known
  <2>3. ASSUME NEW e \in Endpoint
        PROVE  Waiting(e)' = Waiting(e) \cup (IF e = d THEN {c} ELSE {})
    <3>1. \A b : b \in Waiting(e)' <=> b \in Waiting(e) \/ (b = c /\ e = d)
      BY <1>00, <2>1 DEF WaitingIsEntries, PlacesAreEntries, SamePending, SameData
    <3> QED
      BY <3>1
  <2>4. Abstract!Receive(d, c)
    BY <2>1, <2>2, <2>3 DEF Abstract!Receive
  <2> QED
    BY <2>4 DEF Abstract!Next
<1>2. ASSUME NEW f \in fibers, PacketFiber(f)
      PROVE  UNCHANGED Abstract!vars
  <2>1. CASE MissLocal(f)
    <3>1. SameFibers
      BY <1>0, <2>1, StageEntries DEF MissLocal
    <3> QED
      BY <1>q, <2>1, <3>1, SameEntries DEF MissLocal
  <2>2. CASE RegisterEndpoint(f)
    <3>1. SameFibers
      BY <1>0, <2>2, StageEntries DEF RegisterEndpoint
    <3> QED
      BY <1>q, <2>2, <3>1, SameEntries DEF RegisterEndpoint
  <2>3. CASE AppendKnown(f) \/ InsertEndpoint(f)
    <3> DEFINE c == f.buffer
               d == f.from
    <3>1. /\ SameData
          /\ FiberFrom(c, d)
          /\ \A b \in Buffer : \A e \in Endpoint :
                FiberFrom(b, e)' <=> FiberFrom(b, e) /\ b # c
          /\ \A b \in Buffer : \A i \in Slot : \A e \in Endpoint :
                PendingAt(b, i, e)' <=>
                   PendingAt(b, i, e) \/ (b = c /\ i = f.slot /\ e = d)
          /\ UNCHANGED <<delivered, lost>>
          /\ f.slot \in Slot /\ d \in Endpoint /\ c \in Buffer
      BY <1>0, <2>3, StoreEntries
    <3>2. \A e : FiberFrom(c, e) => e = d
      BY <1>0 DEF FiberFrom, OneFiber
    <3>3. UNCHANGED <<clients, pending_disconnects>>
      BY <2>3 DEF AppendKnown, InsertEndpoint
    <3> HIDE DEF c, d
    <3>4. ASSUME NEW e \in Endpoint PROVE Waiting(e)' = Waiting(e)
      <4>1. \A b : b \in Waiting(e)' => b \in Waiting(e)
        BY <1>00, <3>1 DEF WaitingIsEntries, PlacesAreEntries, SameData
      <4>2. \A b : b \in Waiting(e) => b \in Waiting(e)'
        BY <1>00, <3>1, <3>2 DEF WaitingIsEntries, PlacesAreEntries, SameData
      <4> QED
        BY <4>1, <4>2
    <3>5. Mailbox' = Mailbox
      BY <3>4 DEF Mailbox
    <3> QED
      BY <3>1, <3>3, <3>5, Stutters
  <2> QED
    BY <1>2, <2>1, <2>2, <2>3 DEF PacketFiber
<1>3. CASE Tick
  <2>1. CASE TestNewEndpoints \/ TestPendingInputs \/ DispatchInputs \/ FinishInputs
             \/ LockLocal \/ EraseEndpoint \/ EndDisconnects
    BY <1>q, <2>1, SameEntries DEF TestNewEndpoints, TestPendingInputs, DispatchInputs,
       FinishInputs, LockLocal, EraseEndpoint, EndDisconnects
  <2>2. CASE CreateClients
    <3>1. SameFibers /\ SamePending /\ SameData
      BY <2>2, CreateEntries
    <3>2. Mailbox' = Mailbox
      BY <1>0, <3>1, SameMailbox
    <3>3. /\ clients' = clients \cup new_endpoints
          /\ UNCHANGED <<pending_disconnects, delivered, lost>>
      BY <2>2 DEF CreateClients
    <3>4. CASE new_endpoints = {}
      BY <3>2, <3>3, <3>4, Stutters
    <3>5. CASE new_endpoints # {}
      <4>1. new_endpoints \cap clients = {}
        BY <1>0, <2>2 DEF CreateClients, SessionInv, NewRegistered
      <4>2. ASSUME NEW e \in new_endpoints PROVE Waiting(e) # {}
        <5>1. e \in Endpoint /\ PacketWaits(e)
          BY <1>0 DEF NewHasPacket
        <5>2. ASSUME NEW f \in fibers, f.from = e
              PROVE  Waiting(e) # {}
          <6>1. FiberFrom(f.buffer, e)
            BY <5>2 DEF FiberFrom
          <6> QED
            BY <1>00, <5>1, <6>1 DEF WaitingIsEntries
        <5> QED
          BY <1>00, <5>1, <5>2 DEF PacketWaits, WaitingIsEntries
      <4>3. Abstract!Open(new_endpoints)
        BY <1>0, <3>2, <3>3, <3>5, <4>1, <4>2 DEF Abstract!Open, Mailbox
      <4> QED
        BY <1>0, <4>3 DEF Abstract!Next
    <3> QED
      BY <3>4, <3>5
  <2>3. CASE Accumulate
    <3>1. /\ SameFibers
          /\ idx \in Slot
          /\ \A b \in Buffer : \A e \in Endpoint :
                DataOf(b, e)' <=>
                   DataOf(b, e) \/ (e \in DOMAIN endpoint_data /\ PendingAt(b, idx, e))
          /\ \A b \in Buffer : \A i \in Slot : \A e \in Endpoint :
                PendingAt(b, i, e)' <=>
                   PendingAt(b, i, e) /\ ~(i = idx /\ e \in DOMAIN endpoint_data)
          /\ UNCHANGED <<delivered, lost>>
      BY <1>0, <2>3, AccumulateEntries
    <3>2. ASSUME NEW e \in Endpoint PROVE Waiting(e)' = Waiting(e)
      <4>1. \A b : b \in Waiting(e)' => b \in Waiting(e)
        BY <1>00, <3>1 DEF WaitingIsEntries, PlacesAreEntries, SameFibers
      <4>2. \A b : b \in Waiting(e) => b \in Waiting(e)'
        BY <1>00, <3>1 DEF WaitingIsEntries, PlacesAreEntries, SameFibers
      <4> QED
        BY <4>1, <4>2
    <3>3. Mailbox' = Mailbox
      BY <3>2 DEF Mailbox
    <3> QED
      BY <2>3, <3>1, <3>3, Stutters DEF Accumulate
  <2>4. CASE EraseData
    <3>1. SameFibers /\ SamePending /\ SameData /\ lost' = lost
      BY <1>0, <2>4, EraseEntries
    <3> QED
      BY <1>q, <2>4, <3>1 DEF EraseData
  <2>5. CASE ClearLocal
    <3> DEFINE bs == {b \in Buffer : PendingAt(b, idx, Leaving)}
    <3>1. /\ SameFibers /\ SameData
          /\ idx \in Slot /\ Leaving \in Endpoint
          /\ \A b \in Buffer : \A i \in Slot : \A e \in Endpoint :
                PendingAt(b, i, e)' <=>
                   PendingAt(b, i, e) /\ ~(i = idx /\ e = Leaving)
          /\ \A b : b \in lost' <=> b \in lost \/ PendingAt(b, idx, Leaving)
          /\ UNCHANGED <<clients, pending_disconnects, delivered>>
      BY <1>0, <2>5, ClearEntries DEF ClearLocal
    <3>2. /\ \A b : PendingAt(b, idx, Leaving) <=> b \in bs
          /\ bs \subseteq Waiting(Leaving)
          /\ lost' = lost \cup bs
      <4>1. \A b : PendingAt(b, idx, Leaving) <=> b \in bs
        BY <1>00, <3>1 DEF PlacesAreEntries
      <4>2. bs \subseteq Waiting(Leaving)
        BY <1>00, <3>1 DEF WaitingIsEntries
      <4>3. lost' = lost \cup bs
        <5> HIDE DEF bs
        <5>1. \A b : b \in lost' <=> b \in lost \cup bs
          BY <3>1, <4>1
        <5> QED
          BY <5>1
      <4> QED
        BY <4>1, <4>2, <4>3
    <3> HIDE DEF bs
    <3>3. ASSUME NEW e \in Endpoint
          PROVE  Waiting(e)' = IF e = Leaving THEN Waiting(e) \ bs ELSE Waiting(e)
      <4>1. CASE e # Leaving
        <5>1. \A b : b \in Waiting(e)' <=> b \in Waiting(e)
          BY <1>00, <3>1, <4>1
             DEF WaitingIsEntries, PlacesAreEntries, SameFibers, SameData
        <5> QED
          BY <4>1, <5>1
      <4>2. CASE e = Leaving
        <5>1. \A b : b \in Waiting(e)' => b \in Waiting(e) \ bs
          <6> SUFFICES ASSUME NEW b, b \in Waiting(e)'
                       PROVE  b \in Waiting(e) /\ b \notin bs
            OBVIOUS
          <6>1. b \in Buffer
            BY <1>00 DEF WaitingIsEntries, PlacesAreEntries
          <6>2. b \in Waiting(e)
            BY <1>00, <3>1, <6>1 DEF WaitingIsEntries, SameFibers, SameData
          <6>3. b \notin bs
            <7> SUFFICES ASSUME b \in bs PROVE FALSE
              OBVIOUS
            <7>1. PendingAt(b, idx, e) /\ InPending(b)
              BY <1>00, <3>1, <3>2, <4>2 DEF PlacesAreEntries
            <7>2. ~InFiber(b) /\ ~InData(b)
              BY <1>0, <6>1, <7>1 DEF InOnePlace
            <7>3. ~FiberFrom(b, e) /\ ~DataOf(b, e)
              BY <1>00, <7>2 DEF PlacesAreEntries
            <7>4. \A i \in Slot : PendingAt(b, i, e) => i = idx
              BY <1>0, <3>1, <6>1, <7>1 DEF OnePending
            <7> QED
              BY <1>00, <3>1, <4>2, <6>1, <7>3, <7>4
                 DEF WaitingIsEntries, SameFibers, SameData
          <6> QED
            BY <6>2, <6>3
        <5>2. \A b : b \in Waiting(e) \ bs => b \in Waiting(e)'
          BY <1>00, <3>1, <3>2, <4>2
             DEF WaitingIsEntries, PlacesAreEntries, SameFibers, SameData
        <5> QED
          BY <4>2, <5>1, <5>2
      <4> QED
        BY <4>1, <4>2
    <3>4. CASE bs = {}
      <4>1. Mailbox' = Mailbox
        BY <3>3, <3>4 DEF Mailbox
      <4> QED
        BY <3>1, <3>2, <3>4, <4>1, Stutters
    <3>5. CASE bs # {}
      <4>1. Leaving \in AskedFor
        BY <1>0, <2>5 DEF ClearLocal, Dropping, Leaving, AskedFor
      <4>2. Abstract!Drop(Leaving, bs)
        BY <3>1, <3>2, <3>3, <3>5, <4>1 DEF Abstract!Drop, AskedFor, Leaving
      <4>3. bs \in SUBSET Mailbox[Leaving]
        BY <3>1, <3>2 DEF Mailbox
      <4> QED
        BY <3>1, <4>2, <4>3 DEF Abstract!Next, Mailbox
    <3> QED
      BY <3>4, <3>5
  <2>6. CASE OnDisconnected
    <3>1. /\ clients' = clients \ {Leaving}
          /\ pending_disconnects # <<>>
          /\ pending_disconnects' = Tail(pending_disconnects)
          /\ UNCHANGED <<delivered, lost>>
          /\ Mailbox' = Mailbox
      BY <1>0, <2>6, SameEntries, SameMailbox DEF OnDisconnected, Dropping
    <3>2. /\ Leaving = pending_disconnects[1]
          /\ Len(pending_disconnects) \in Nat \ {0}
          /\ Len(Tail(pending_disconnects)) = Len(pending_disconnects) - 1
          /\ \A k \in 1 .. Len(Tail(pending_disconnects)) :
                Tail(pending_disconnects)[k] = pending_disconnects[k + 1]
      BY <1>0, <3>1 DEF Leaving
    <3>3. Leaving \in AskedFor /\ Leaving \in Endpoint
      BY <1>0, <3>2 DEF AskedFor
    <3>4. AskedFor' = AskedFor \ {Leaving}
      <4>1. ASSUME NEW e \in AskedFor'
            PROVE  e \in AskedFor /\ e # Leaving
        <5>1. PICK k \in 1 .. Len(Tail(pending_disconnects)) :
                 e = pending_disconnects[k + 1]
          BY <3>1, <3>2 DEF AskedFor
        <5>2. k + 1 \in 1 .. Len(pending_disconnects) /\ k + 1 # 1
          BY <3>2
        <5> QED
          BY <1>0, <3>2, <5>1, <5>2 DEF AskedFor, SessionInv, DisconnectsOfClients
      <4>2. ASSUME NEW e \in AskedFor, e # Leaving
            PROVE  e \in AskedFor'
        <5>1. PICK k \in 1 .. Len(pending_disconnects) : e = pending_disconnects[k]
          BY DEF AskedFor
        <5>2. k - 1 \in 1 .. Len(Tail(pending_disconnects)) /\ (k - 1) + 1 = k
          BY <3>2, <4>2, <5>1
        <5> QED
          BY <3>1, <3>2, <5>1, <5>2 DEF AskedFor
      <4> QED
        BY <4>1, <4>2
    <3>5. PICK e \in Endpoint : e = Leaving
      BY <3>3
    <3>6. Abstract!Close(e)
      BY <3>1, <3>3, <3>4, <3>5 DEF Abstract!Close, AskedFor, Mailbox
    <3> QED
      BY <3>6 DEF Abstract!Next
  <2> QED
    BY <1>3, <2>1, <2>2, <2>3, <2>4, <2>5, <2>6 DEF Tick
<1>4. ASSUME NEW c \in inputs, ClientInputs(c)
      PROVE  Abstract!Next \/ UNCHANGED Abstract!vars
  <2>1. /\ SameFibers /\ SamePending
        /\ \A b \in Buffer : \A e \in Endpoint : DataOf(b, e)' <=> DataOf(b, e) /\ e # c
        /\ c \in DOMAIN endpoint_data
        /\ delivered' = delivered \cup endpoint_data[c]
        /\ UNCHANGED <<clients, pending_disconnects, lost>>
    BY <1>0, <1>4, InputsEntries DEF ClientInputs
  <2>2. c \in clients /\ c \in Endpoint
    BY <1>0, <2>1 DEF DataOfClients
  <2> DEFINE bs == endpoint_data[c]
  <2>3. \A b : b \in bs <=> DataOf(b, c)
    BY <2>1 DEF DataOf
  <2> HIDE DEF bs
  <2>4. bs \subseteq Waiting(c)
    BY <1>00, <2>2, <2>3 DEF WaitingIsEntries
  <2>5. ASSUME NEW e \in Endpoint
        PROVE  Waiting(e)' = IF e = c THEN Waiting(e) \ bs ELSE Waiting(e)
    <3>1. CASE e # c
      <4>1. \A b : b \in Waiting(e)' <=> b \in Waiting(e)
        BY <1>00, <2>1, <3>1
           DEF WaitingIsEntries, PlacesAreEntries, SameFibers, SamePending
      <4> QED
        BY <3>1, <4>1
    <3>2. CASE e = c
      <4>1. \A b : b \in Waiting(e)' => b \in Waiting(e) \ bs
        <5> SUFFICES ASSUME NEW b, b \in Waiting(e)'
                     PROVE  b \in Waiting(e) /\ b \notin bs
          OBVIOUS
        <5>1. b \in Buffer
          BY <1>00 DEF WaitingIsEntries, PlacesAreEntries
        <5>2. FiberFrom(b, e) \/ \E i \in Slot : PendingAt(b, i, e)
          BY <1>00, <2>1, <3>2, <5>1 DEF WaitingIsEntries, SameFibers, SamePending
        <5>3. InFiber(b) \/ InPending(b)
          BY <1>00, <5>2 DEF PlacesAreEntries
        <5>4. ~DataOf(b, e)
          BY <1>0, <1>00, <5>1, <5>3 DEF InOnePlace, PlacesAreEntries
        <5> QED
          BY <1>00, <2>3, <3>2, <5>2, <5>4 DEF WaitingIsEntries
      <4>2. \A b : b \in Waiting(e) \ bs => b \in Waiting(e)'
        BY <1>00, <2>1, <2>3, <3>2
           DEF WaitingIsEntries, PlacesAreEntries, SameFibers, SamePending
      <4> QED
        BY <3>2, <4>1, <4>2
    <3> QED
      BY <3>1, <3>2
  <2>6. CASE bs = {}
    <3>1. Mailbox' = Mailbox
      BY <2>5, <2>6 DEF Mailbox
    <3>2. delivered' = delivered
      BY <2>1, <2>6 DEF bs
    <3> QED
      BY <2>1, <3>1, <3>2, Stutters
  <2>7. CASE bs # {}
    <3>1. delivered' = delivered \cup bs
      BY <2>1 DEF bs
    <3>2. Abstract!Deliver(c, bs)
      BY <2>1, <2>2, <2>5, <2>7, <3>1 DEF Abstract!Deliver
    <3>3. bs \in SUBSET Mailbox[c]
      BY <2>2, <2>4 DEF Mailbox
    <3> QED
      BY <2>2, <3>2, <3>3 DEF Abstract!Next, Mailbox
  <2> QED
    BY <2>6, <2>7
<1>5. ASSUME NEW e \in clients, Disconnect(e)
      PROVE  Abstract!Next
  <2>1. /\ pending_disconnects' = Append(pending_disconnects, e)
        /\ UNCHANGED <<clients, delivered, lost>>
        /\ Mailbox' = Mailbox
    BY <1>0, <1>5, SameEntries, SameMailbox DEF Disconnect
  <2>2. e \in Endpoint /\ e \notin AskedFor
    BY <1>0, <1>5 DEF Disconnect, AskedFor
  <2>3. AskedFor' = AskedFor \cup {e}
    <3>1. /\ Len(pending_disconnects) \in Nat
          /\ Len(pending_disconnects') = Len(pending_disconnects) + 1
          /\ \A k \in 1 .. Len(pending_disconnects) + 1 : pending_disconnects'[k] =
                IF k <= Len(pending_disconnects) THEN pending_disconnects[k] ELSE e
      BY <1>0, <2>1, <2>2
    <3> QED
      BY <3>1 DEF AskedFor
  <2>4. Abstract!Ask(e)
    BY <2>1, <2>2, <2>3 DEF Abstract!Ask, AskedFor, Mailbox
  <2> QED
    BY <2>2, <2>4 DEF Abstract!Next
<1>6. CASE UNCHANGED vars
  BY <1>6, <1>q, SameEntries DEF vars
<1> QED
  BY <1>1, <1>2, <1>3, <1>4, <1>5, <1>6 DEF Next

\* The network plugin keeps what Sessions promises its user, for any number of
\* network threads, endpoints and packets: a client is announced only for a packet
\* that waits for it and while it has no session, a packet is delivered once, to
\* the client that sent it and during its session, and only a client whose
\* disconnect was asked for loses any. User code disconnects a client once.
THEOREM PluginImplementsSessions ==
    ASSUME ~RepeatDisconnect
    PROVE  Spec => ImplementsSessions
<1>1. Spec => []RefinementInv
  <2>1. Init => DataOfClients /\ NewHasPacket
    BY InitClient
  <2>2. TypeInv /\ OwnerInv => OneFiber
    BY DEF OwnerInv
  <2> QED
    BY <2>1, <2>2, SessionsInvariant, OwnersAlways, NextDataOfClients,
       NextNewHasPacket, PTL DEF Spec, RefinementInv
<1> QED
  BY <1>1, InitImplements, NextImplements, PTL
     DEF Spec, ImplementsSessions, Abstract!Spec

=============================================================================
