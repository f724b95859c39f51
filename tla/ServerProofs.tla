---------------------------- MODULE ServerProofs ----------------------------
(***************************************************************************)
(* Proofs about Server, for any number of network threads, clients and     *)
(* objects: what is true of the core loop and of the plugin alone is true of*)
(* them together, and what they pass to each other has one owner.          *)
(***************************************************************************)
EXTENDS Server, TLAPS

\* The components with their theorems.
CoreP == INSTANCE CoreLoopProofs WITH
    buffers <- buffer_pool,
    endpoints <- endpoint_pool

PluginP == INSTANCE NetworkPluginProofs WITH
    Buffer <- 1 .. MaxObjects,
    MaxConcurrentThreads <- NetworkThreads,
    RepeatDisconnect <- FALSE

----------------------------------------------------------------------------
(***************************************************************************)
(* CoreP and Core are the same component, and so are PluginP and Plugin.   *)
(***************************************************************************)

\* The constants the components were proved for.
LEMMA Constants ==
    /\ CoreP!ConstantsAssumption
    /\ PluginP!ConstantsAssumption
BY ConstantsAssumption DEF CoreP!ConstantsAssumption, PluginP!ConstantsAssumption

\* The operators of the core loop.
LEMMA SameCore ==
    /\ Core!Init <=> CoreP!Init
    /\ Core!Memory = CoreP!Memory
    /\ Core!Chain = CoreP!Chain
    /\ \A k : Core!Written(k) = CoreP!Written(k)
BY Zenon
   DEF Core!Init, Core!Memory, Core!Chain, Core!Written, Core!NoThread,
       CoreP!Init, CoreP!Memory, CoreP!Chain, CoreP!Written, CoreP!NoThread

\* Its steps.
LEMMA SameCoreNext == Core!Next => CoreP!Next
<1> USE DEF Core!startVars, Core!poolVars, Core!flagVars, Core!memoryVars,
            CoreP!startVars, CoreP!poolVars, CoreP!flagVars, CoreP!memoryVars
<1>1. Core!Start => CoreP!Start
  BY Zenon
     DEF Core!Start, Core!StartNetwork, Core!StartDatabase, Core!PushMainLoop,
         Core!StartCore, Core!StartJoinCore, Core!StartJoinDatabase,
         Core!StartSignal, Core!StartReturn, Core!CoreJoined,
         Core!DatabaseJoined, Core!HandleConnections, Core!Get, Core!Available,
         Core!Idle,
         CoreP!Start, CoreP!StartNetwork, CoreP!StartDatabase,
         CoreP!PushMainLoop, CoreP!StartCore, CoreP!StartJoinCore,
         CoreP!StartJoinDatabase, CoreP!StartSignal, CoreP!StartReturn,
         CoreP!CoreJoined, CoreP!DatabaseJoined, CoreP!HandleConnections,
         CoreP!Get, CoreP!Available, CoreP!Idle
<1>2. Core!MainLoop => CoreP!MainLoop
  BY Zenon
     DEF Core!MainLoop, Core!MainTest, Core!MainIterate, Core!MainEndCore,
         Core!MainEndDatabase, Core!MainStopNetwork, Core!MainJoinNetwork,
         Core!MainDone, Core!Exited,
         CoreP!MainLoop, CoreP!MainTest, CoreP!MainIterate, CoreP!MainEndCore,
         CoreP!MainEndDatabase, CoreP!MainStopNetwork, CoreP!MainJoinNetwork,
         CoreP!MainDone, CoreP!Exited
<1>3. Core!StopCalled \/ Core!Stop => CoreP!StopCalled \/ CoreP!Stop
  BY Zenon
     DEF Core!StopCalled, Core!Stop, Core!StopJoinCore, Core!StopJoinDatabase,
         Core!StopSignal, Core!StopReturn, Core!CoreJoined, Core!DatabaseJoined,
         CoreP!StopCalled, CoreP!Stop, CoreP!StopJoinCore,
         CoreP!StopJoinDatabase, CoreP!StopSignal, CoreP!StopReturn,
         CoreP!CoreJoined, CoreP!DatabaseJoined
<1>4. ASSUME NEW t \in Core!Chain,
             Core!Receive(t) \/ Core!HandleAgain(t) \/ Core!RunReturns(t)
      PROVE  CoreP!Receive(t) \/ CoreP!HandleAgain(t) \/ CoreP!RunReturns(t)
  BY <1>4, Zenon
     DEF Core!Receive, Core!PacketReceived, Core!ReceiveFailed, Core!Completes,
         Core!Release, Core!Hand, Core!RoomForPackets, Core!Cardinality, Core!HandleAgain,
         Core!RunReturns, Core!HandleConnections, Core!Get, Core!Available,
         Core!Chain, Core!Idle, Core!Exited,
         CoreP!Receive, CoreP!PacketReceived, CoreP!ReceiveFailed,
         CoreP!Completes, CoreP!Release, CoreP!Hand, CoreP!RoomForPackets,
         CoreP!Cardinality, CoreP!HandleAgain, CoreP!RunReturns, CoreP!HandleConnections,
         CoreP!Get, CoreP!Available, CoreP!Chain, CoreP!Idle, CoreP!Exited
<1>5. ASSUME NEW m \in Core!Memory,
             Core!ReleaseNetworkBuffer(m) \/ Core!ReleaseNetworkEndpoint(m)
      PROVE  CoreP!ReleaseNetworkBuffer(m) \/ CoreP!ReleaseNetworkEndpoint(m)
  BY <1>5, Zenon
     DEF Core!ReleaseNetworkBuffer, Core!ReleaseNetworkEndpoint, Core!Release,
         CoreP!ReleaseNetworkBuffer, CoreP!ReleaseNetworkEndpoint, CoreP!Release
<1>6. Core!Chain = CoreP!Chain /\ Core!Memory = CoreP!Memory
  BY SameCore
<1> QED
  BY <1>1, <1>2, <1>3, <1>4, <1>5, <1>6, Zenon DEF Core!Next, CoreP!Next

\* The operators of the plugin.
LEMMA SamePlugin ==
    /\ Plugin!Init <=> PluginP!Init
    /\ Plugin!OneOwner <=> PluginP!OneOwner
BY Zenon
   DEF Plugin!Init, Plugin!OneOwner, Plugin!Slot, Plugin!EmptyMap,
       Plugin!InFiber, Plugin!InPending, Plugin!InData,
       PluginP!Init, PluginP!OneOwner, PluginP!Slot, PluginP!EmptyMap,
       PluginP!InFiber, PluginP!InPending, PluginP!InData

\* Its steps.
LEMMA SamePluginNext ==
    /\ \A b, i, e : Plugin!HandleNetworkPacket(b, i, e)
                       => PluginP!HandleNetworkPacket(b, i, e)
    /\ \A f : Plugin!PacketFiber(f) => PluginP!PacketFiber(f)
    /\ Plugin!Tick => PluginP!Tick
    /\ \A e : Plugin!ClientInputs(e) => PluginP!ClientInputs(e)
    /\ \A e : Plugin!Disconnect(e) => PluginP!Disconnect(e)
<1> USE DEF Plugin!packetVars, Plugin!localVars, Plugin!sharedVars,
            Plugin!tickVars, Plugin!userVars,
            PluginP!packetVars, PluginP!localVars, PluginP!sharedVars,
            PluginP!tickVars, PluginP!userVars
<1>1. \A f : Plugin!PacketFiber(f) => PluginP!PacketFiber(f)
  BY Zenon
     DEF Plugin!PacketFiber, Plugin!AppendKnown, Plugin!MissLocal,
         Plugin!RegisterEndpoint, Plugin!InsertEndpoint, Plugin!AddTo,
         PluginP!PacketFiber, PluginP!AppendKnown, PluginP!MissLocal,
         PluginP!RegisterEndpoint, PluginP!InsertEndpoint, PluginP!AddTo
<1>2. Plugin!Tick => PluginP!Tick
  BY Zenon
     DEF Plugin!Tick, Plugin!TestNewEndpoints, Plugin!CreateClients,
         Plugin!TestPendingInputs, Plugin!Accumulate, Plugin!DispatchInputs,
         Plugin!FinishInputs, Plugin!EraseData, Plugin!LockLocal,
         Plugin!EraseEndpoint, Plugin!ClearLocal, Plugin!OnDisconnected,
         Plugin!EndDisconnects, Plugin!Leaving,
         PluginP!Tick, PluginP!TestNewEndpoints, PluginP!CreateClients,
         PluginP!TestPendingInputs, PluginP!Accumulate, PluginP!DispatchInputs,
         PluginP!FinishInputs, PluginP!EraseData, PluginP!LockLocal,
         PluginP!EraseEndpoint, PluginP!ClearLocal, PluginP!OnDisconnected,
         PluginP!EndDisconnects, PluginP!Leaving
<1> QED
  BY <1>1, <1>2, Zenon
     DEF Plugin!HandleNetworkPacket, Plugin!ClientInputs, Plugin!Disconnect,
         PluginP!HandleNetworkPacket, PluginP!ClientInputs, PluginP!Disconnect

----------------------------------------------------------------------------
(***************************************************************************)
(* Every step of the server is one of the core loop, and one of the plugin *)
(* or the return of a buffer, which the plugin alone does not know.        *)
(***************************************************************************)

\* What the components' proofs say of their reachable states.
CoreInv ==
    /\ CoreP!TypeInv
    /\ CoreP!ChainInv
    /\ CoreP!MemoryInv
    /\ CoreP!EndInv

PluginInv ==
    /\ PluginP!TypeInv
    /\ PluginP!DataInv
    /\ PluginP!OwnerInv

\* The steps of the core loop that take no part in what the plugin does.
CoreAlone ==
    \/ Core!Start
    \/ Core!MainLoop
    \/ Core!StopCalled
    \/ Core!Stop
    \/ \E t, i \in Core!Chain : Core!ReceiveFailed(t, i)
    \/ \E t \in Core!Chain : Core!HandleAgain(t) \/ Core!RunReturns(t)

\* A step is one of the core loop.
LEMMA NextIsCore == CoreP!TypeInv /\ [Next]_vars => [CoreP!Next]_(CoreP!vars)
<1> SUFFICES ASSUME CoreP!TypeInv, [Next]_vars
             PROVE  Core!Next \/ UNCHANGED coreVars
  BY SameCoreNext
     DEF coreVars, CoreP!vars, CoreP!startVars, CoreP!poolVars, CoreP!flagVars,
         CoreP!memoryVars
<1>1. ASSUME CoreAlone
      PROVE  Core!Next
  BY <1>1, Zenon DEF CoreAlone, Core!Next, Core!Receive
<1>2. CASE Start \/ MainLoop \/ StopCalled \/ Stop
  BY <1>1, <1>2, Zenon DEF Start, MainLoop, StopCalled, Stop, CoreAlone
<1>3. ASSUME NEW t \in Core!Chain, NEW i \in Core!Chain, NEW e \in Endpoint,
             PacketReceived(t, i, e)
      PROVE  Core!Next
  BY <1>3, Zenon DEF PacketReceived, Core!Next, Core!Receive
<1>4. ASSUME NEW t \in Core!Chain, NEW i \in Core!Chain, ReceiveFailed(t, i)
      PROVE  Core!Next
  BY <1>1, <1>4, Zenon DEF ReceiveFailed, CoreAlone
<1>5. ASSUME NEW t \in Core!Chain, NetworkThread(t)
      PROVE  Core!Next
  BY <1>1, <1>5, Zenon DEF NetworkThread, CoreAlone
<1>6. CASE Tick
  BY <1>1, <1>6, Zenon DEF Tick, CoreAlone, Core!MainLoop
<1>7. ASSUME NEW f \in fibers, PacketFiber(f)
      PROVE  UNCHANGED coreVars
  BY <1>7, Zenon DEF PacketFiber
<1>8. ASSUME NEW m \in Core!Memory, ReleaseEndpoint(m)
      PROVE  Core!Next
  BY <1>8, Zenon DEF ReleaseEndpoint, Core!Next
<1>9. ASSUME NEW b, Recycle(b)
      PROVE  Core!Next
  <2>1. b \in Core!Memory
    BY <1>9 DEF Recycle, Core!ReleaseNetworkBuffer, CoreP!TypeInv, CoreP!TypeOK,
            CoreP!Pool, CoreP!Memory, Core!Memory
  <2> QED
    BY <1>9, <2>1, Zenon DEF Recycle, Core!Next
<1>10. ASSUME NEW b \in delivered, UserReturns(b)
       PROVE  Core!Next \/ UNCHANGED coreVars
  BY <1>9, <1>10, Zenon DEF UserReturns, ReleaseBuffer, SendData
<1>11. ASSUME NEW t \in Core!Chain, NEW b \in sending, SendCompletes(t, b)
       PROVE  Core!Next
  BY <1>9, <1>11, Zenon DEF SendCompletes
<1>12. CASE (\E e \in inputs : ClientInputs(e)) \/ (\E e \in clients : Disconnect(e))
  BY <1>12, Zenon DEF ClientInputs, Disconnect
<1>13. CASE UNCHANGED vars
  BY <1>13 DEF vars
<1> QED
  BY <1>2, <1>3, <1>4, <1>5, <1>6, <1>7, <1>8, <1>10, <1>11, <1>12, <1>13, Zenon
     DEF Next

\* A buffer goes from user code to the network threads again.
Returned(b) ==
    /\ b \in delivered
    /\ unused' = unused \cup {b}
    /\ delivered' = delivered \ {b}
    /\ UNCHANGED <<fibers, mapVars, lost>>

\* A step is one of the plugin, or returns a buffer.
LEMMA NextIsPlugin ==
    CoreP!TypeInv /\ (sending \subseteq delivered) /\ [Next]_vars
        => [PluginP!Next]_(PluginP!vars) \/ \E b : Returned(b)
<1> SUFFICES ASSUME CoreP!TypeInv, sending \subseteq delivered, [Next]_vars
             PROVE  PluginP!Next \/ UNCHANGED pluginVars \/ \E b : Returned(b)
  BY DEF pluginVars, mapVars, PluginP!vars, PluginP!packetVars, PluginP!localVars,
         PluginP!sharedVars, PluginP!tickVars, PluginP!userVars
<1>1. CASE Start \/ MainLoop \/ StopCalled \/ Stop
  BY <1>1, Zenon DEF Start, MainLoop, StopCalled, Stop
<1>2. ASSUME NEW t \in Core!Chain, NEW i \in Core!Chain, NEW e \in Endpoint,
             PacketReceived(t, i, e)
      PROVE  PluginP!Next
  <2>1. receiving[i][1] \in 1 .. MaxObjects /\ i \in PluginP!Slot
    BY <1>2 DEF PacketReceived, Core!PacketReceived, Core!Completes, Core!Chain,
            CoreP!TypeInv, CoreP!TypeOK, CoreP!Chain, CoreP!Memory, PluginP!Slot
  <2>2. PluginP!HandleNetworkPacket(receiving[i][1], i, e)
    BY <1>2, SamePluginNext, Zenon DEF PacketReceived
  <2> QED
    BY <2>1, <2>2, Zenon DEF PluginP!Next
<1>3. CASE \/ \E t, i \in Core!Chain : ReceiveFailed(t, i)
           \/ \E t \in Core!Chain : NetworkThread(t)
           \/ \E m \in Core!Memory : ReleaseEndpoint(m)
  BY <1>3, Zenon DEF ReceiveFailed, NetworkThread, ReleaseEndpoint
<1>4. CASE Tick
  BY <1>4, SamePluginNext, Zenon DEF Tick, PluginP!Next
<1>5. ASSUME NEW f \in fibers, PacketFiber(f)
      PROVE  PluginP!Next
  BY <1>5, SamePluginNext, Zenon DEF PacketFiber, PluginP!Next
<1>6. ASSUME NEW e \in inputs, ClientInputs(e)
      PROVE  PluginP!Next
  BY <1>6, SamePluginNext, Zenon DEF ClientInputs, PluginP!Next
<1>7. ASSUME NEW b \in delivered, UserReturns(b)
      PROVE  Returned(b) \/ UNCHANGED pluginVars
  BY <1>7, Zenon DEF UserReturns, ReleaseBuffer, Recycle, SendData, Returned
<1>8. ASSUME NEW t \in Core!Chain, NEW b \in sending, SendCompletes(t, b)
      PROVE  Returned(b)
  BY <1>8 DEF SendCompletes, Recycle, Returned
<1>9. ASSUME NEW e \in clients, Disconnect(e)
      PROVE  PluginP!Next
  BY <1>9, SamePluginNext, Zenon DEF Disconnect, PluginP!Next
<1>10. CASE UNCHANGED vars
  BY <1>10 DEF vars
<1> QED
  BY <1>1, <1>2, <1>3, <1>4, <1>5, <1>6, <1>7, <1>8, <1>9, <1>10, Zenon DEF Next


----------------------------------------------------------------------------
(***************************************************************************)
(* What is true of the components alone is true of them here.              *)
(***************************************************************************)

\* The core loop's invariants hold in the initial state and are kept.
LEMMA CoreKept ==
    /\ Core!Init => CoreInv
    /\ CoreInv /\ [Next]_vars => CoreInv'
<1>1. Core!Init => CoreInv
  BY Constants, SameCore, CoreP!InitType, CoreP!InitChain, CoreP!InitMemory,
     CoreP!InitEnd, Zenon DEF CoreInv
<1>2. CoreInv /\ [Next]_vars => [CoreP!Next]_(CoreP!vars)
  BY NextIsCore, Zenon DEF CoreInv
<1>3. CoreP!TypeInv => CoreP!TypeOK
  BY DEF CoreP!TypeInv
<1> QED
  BY <1>1, <1>2, <1>3, Constants, CoreP!NextType, CoreP!NextChain,
     CoreP!NextMemory, CoreP!NextEnd, Zenon DEF CoreInv

\* The plugin does not care who returns a buffer.
LEMMA ReturnedKeeps ==
    ASSUME PluginInv, NEW b, Returned(b)
    PROVE  PluginInv'
<1> USE DEF Returned, mapVars
<1>1. PluginP!TypeInv'
  BY DEF PluginInv, PluginP!TypeInv, PluginP!TypeOK, PluginP!TickInRange,
         PluginP!Dropping, PluginP!LocalMapsAgree
<1>2. PluginP!DataInv'
  BY DEF PluginInv, PluginP!DataInv, PluginP!FinishedIsEmpty,
         PluginP!ErasedDataIsEmpty
<1>3. PluginP!OneFiber' /\ PluginP!OnePending' /\ PluginP!OneData'
  BY DEF PluginInv, PluginP!OwnerInv, PluginP!OneFiber, PluginP!OnePending,
         PluginP!OneData, PluginP!PendingAt, PluginP!DataOf
<1>4. ASSUME NEW c \in 1 .. MaxObjects
      PROVE  PluginP!InOnePlace(c)'
  <2>1. PluginP!InOnePlace(c)
    BY <1>4 DEF PluginInv, PluginP!OwnerInv
  <2>2. /\ PluginP!InFiber(c)' <=> PluginP!InFiber(c)
        /\ PluginP!InPending(c)' <=> PluginP!InPending(c)
        /\ PluginP!InData(c)' <=> PluginP!InData(c)
    BY DEF PluginP!InFiber, PluginP!InPending, PluginP!InData
  <2> QED
    BY <2>1, <2>2 DEF PluginP!InOnePlace
<1> QED
  BY <1>1, <1>2, <1>3, <1>4 DEF PluginInv, PluginP!OwnerInv

\* The plugin's invariants hold in the initial state and are kept.
LEMMA PluginKept ==
    /\ Plugin!Init => PluginInv
    /\ CoreInv /\ PluginInv /\ (sending \subseteq delivered) /\ [Next]_vars
         => PluginInv'
<1>1. Plugin!Init => PluginInv
  <2> SUFFICES ASSUME Plugin!Init PROVE PluginInv
    OBVIOUS
  <2>1. PluginP!DataInv
    BY SamePlugin DEF PluginP!Init, PluginP!DataInv, PluginP!FinishedIsEmpty,
           PluginP!ErasedDataIsEmpty
  <2> QED
    BY <2>1, Constants, SamePlugin, PluginP!InitType, PluginP!InitOwner, Zenon
       DEF PluginInv
<1>2. ASSUME CoreInv, PluginInv, sending \subseteq delivered, [Next]_vars
      PROVE  PluginInv'
  <2>1. CASE [PluginP!Next]_(PluginP!vars)
    BY <1>2, <2>1, Constants, PluginP!NextType, PluginP!NextData,
       PluginP!NextOwner, Zenon DEF PluginInv
  <2>2. CASE \E b : Returned(b)
    BY <1>2, <2>2, ReturnedKeeps, Zenon
  <2> QED
    BY <1>2, <2>1, <2>2, NextIsPlugin, Zenon DEF CoreInv
<1> QED
  BY <1>1, <1>2, Zenon


----------------------------------------------------------------------------
(***************************************************************************)
(* What the components pass to each other.                                 *)
(***************************************************************************)

\* The endpoint object of a packet is with its fiber, then among those the fiber
\* has only to release.
EndpointsLinked ==
    /\ DOMAIN carries = {f.buffer : f \in fibers}
    /\ endpoint_pool.held = Range(carries) \cup returning
    /\ Range(carries) \cap returning = {}
    /\ \A a, b \in DOMAIN carries : a # b => carries[a] # carries[b]

\* A buffer the plugin has is one the core loop handed out, and one that is being
\* sent is still with user code.
BuffersLinked ==
    /\ buffer_pool.held = Core!Memory \ unused
    /\ sending \subseteq delivered

\* What an armed receive writes into is with nobody else.
LEMMA WrittenNotHeld ==
    CoreInv => /\ Core!Written(1) \cap (buffer_pool.free \cup buffer_pool.held) = {}
               /\ Core!Written(2) \cap (endpoint_pool.free \cup endpoint_pool.held) = {}
               /\ buffer_pool.free \cap buffer_pool.held = {}
BY SameCore DEF CoreInv, CoreP!MemoryInv, CoreP!Accounts

\* What a receive that completes has written into.
LEMMA ReceivedInto ==
    ASSUME CoreInv, NEW t \in Core!Chain, NEW i \in Core!Chain, Core!Completes(t, i)
    PROVE  /\ receiving[i][1] \in Core!Memory /\ receiving[i][2] \in Core!Memory
           /\ receiving[i][1] \notin buffer_pool.held
           /\ receiving[i][2] \notin endpoint_pool.held
<1>1. receiving[i] # <<>>
  BY DEF Core!Completes
<1>2. receiving[i] \in Core!Memory \X Core!Memory
  BY <1>1 DEF CoreInv, CoreP!TypeInv, CoreP!TypeOK, CoreP!Chain, CoreP!Memory,
          Core!Chain, Core!Memory
<1>3. receiving[i][1] \in Core!Written(1) /\ receiving[i][2] \in Core!Written(2)
  BY <1>1 DEF Core!Written
<1> QED
  BY <1>2, <1>3, WrittenNotHeld

\* The steps of the core loop alone hand nothing to the plugin.
LEMMA AloneHeld ==
    ASSUME CoreInv, CoreAlone
    PROVE  /\ buffer_pool'.held = buffer_pool.held
           /\ endpoint_pool'.held = endpoint_pool.held
<1>0. buffer_pool \in CoreP!Pool /\ endpoint_pool \in CoreP!Pool
  BY DEF CoreInv, CoreP!TypeInv, CoreP!TypeOK
<1>1. ASSUME NEW i, Core!HandleConnections(i)
      PROVE  /\ buffer_pool'.held = buffer_pool.held
             /\ endpoint_pool'.held = endpoint_pool.held
  BY <1>0, <1>1 DEF Core!HandleConnections, Core!Get, CoreP!Pool
<1>2. CASE UNCHANGED <<buffer_pool, endpoint_pool>>
  BY <1>2
<1>3. CASE Core!Start
  BY <1>1, <1>2, <1>3
     DEF Core!Start, Core!StartNetwork, Core!StartDatabase, Core!PushMainLoop,
         Core!StartCore, Core!StartJoinCore, Core!StartJoinDatabase,
         Core!StartSignal, Core!StartReturn, Core!memoryVars
<1>4. CASE Core!MainLoop
  BY <1>2, <1>4
     DEF Core!MainLoop, Core!MainTest, Core!MainIterate, Core!MainEndCore,
         Core!MainEndDatabase, Core!MainStopNetwork, Core!MainJoinNetwork,
         Core!MainDone, Core!memoryVars
<1>5. CASE Core!StopCalled \/ Core!Stop
  BY <1>2, <1>5
     DEF Core!StopCalled, Core!Stop, Core!StopJoinCore, Core!StopJoinDatabase,
         Core!StopSignal, Core!StopReturn, Core!memoryVars
<1>6. ASSUME NEW t \in Core!Chain, NEW i \in Core!Chain, Core!ReceiveFailed(t, i)
      PROVE  /\ buffer_pool'.held = buffer_pool.held
             /\ endpoint_pool'.held = endpoint_pool.held
  <2>1. /\ receiving[i][1] \notin buffer_pool.held
        /\ receiving[i][2] \notin endpoint_pool.held
    BY <1>6, ReceivedInto DEF Core!ReceiveFailed
  <2> QED
    BY <1>0, <1>6, <2>1 DEF Core!ReceiveFailed, Core!Release, CoreP!Pool
<1>7. ASSUME NEW t \in Core!Chain, Core!HandleAgain(t) \/ Core!RunReturns(t)
      PROVE  /\ buffer_pool'.held = buffer_pool.held
             /\ endpoint_pool'.held = endpoint_pool.held
  BY <1>1, <1>2, <1>7 DEF Core!HandleAgain, Core!RunReturns, Core!memoryVars
<1> QED
  BY <1>3, <1>4, <1>5, <1>6, <1>7 DEF CoreAlone


\* In the initial state nobody has anything.
LEMMA InitLinked == Init => EndpointsLinked /\ BuffersLinked
<1> SUFFICES ASSUME Init PROVE EndpointsLinked /\ BuffersLinked
  OBVIOUS
<1>1. /\ unused = 1 .. MaxObjects
      /\ fibers = {}
      /\ carries = <<>> /\ returning = {} /\ sending = {}
      /\ buffer_pool.held = {} /\ endpoint_pool.held = {}
  BY DEF Init, Plugin!Init, Core!Init
<1>2. DOMAIN carries = {} /\ Range(carries) = {}
  BY <1>1 DEF Range
<1> QED
  BY <1>1, <1>2 DEF EndpointsLinked, BuffersLinked, Core!Memory

\* A packet's buffer and endpoint object go to its fiber.
LEMMA ReceiveLinks ==
    ASSUME CoreInv, EndpointsLinked, BuffersLinked,
           NEW t \in Core!Chain, NEW i \in Core!Chain, NEW e \in Endpoint,
           PluginInv, PacketReceived(t, i, e)
    PROVE  EndpointsLinked' /\ BuffersLinked'
<1> DEFINE b == receiving[i][1]
           m == receiving[i][2]
<1>1. /\ b \in Core!Memory /\ m \in Core!Memory
      /\ b \notin buffer_pool.held /\ m \notin endpoint_pool.held
  BY ReceivedInto DEF PacketReceived, Core!PacketReceived
<1>2. /\ buffer_pool'.held = buffer_pool.held \cup {b}
      /\ endpoint_pool'.held = endpoint_pool.held \cup {m}
  BY DEF PacketReceived, Core!PacketReceived, Core!Hand, CoreInv, CoreP!TypeInv,
         CoreP!TypeOK, CoreP!Pool
<1>3. /\ b \in unused
      /\ unused' = unused \ {b}
      /\ delivered' = delivered
      /\ \E f : f.buffer = b /\ fibers' = fibers \cup {f}
  <2>1. [buffer |-> b, slot |-> i, from |-> e, stage |-> "queued"].buffer = b
    OBVIOUS
  <2> QED
    BY <2>1 DEF PacketReceived, Plugin!HandleNetworkPacket, Plugin!userVars
<1>4. b \notin DOMAIN carries
  <2>1. PluginP!InOnePlace(b)
    BY <1>1 DEF PluginInv, PluginP!OwnerInv, Core!Memory
  <2> QED
    BY <1>3, <2>1 DEF PluginP!InOnePlace, PluginP!InFiber, EndpointsLinked
<1>5. /\ DOMAIN carries' = DOMAIN carries \cup {b}
      /\ carries'[b] = m
      /\ \A c \in DOMAIN carries : carries'[c] = carries[c]
      /\ returning' = returning /\ sending' = sending
  BY <1>4 DEF PacketReceived
<1>6. Range(carries)' = Range(carries) \cup {m}
  BY <1>5 DEF Range
<1>7. DOMAIN carries' = {f.buffer : f \in fibers'}
  BY <1>3, <1>5 DEF EndpointsLinked
<1>8. \A x, y \in DOMAIN carries' : x # y => carries'[x] # carries'[y]
  <2>1. \A c \in DOMAIN carries : carries[c] # m
    BY <1>1 DEF EndpointsLinked, Range
  <2> QED
    BY <1>5, <2>1 DEF EndpointsLinked
<1>9. EndpointsLinked'
  BY <1>1, <1>2, <1>5, <1>6, <1>7, <1>8 DEF EndpointsLinked
<1>10. BuffersLinked'
  BY <1>1, <1>2, <1>3, <1>5 DEF BuffersLinked, Core!Memory
<1> QED
  BY <1>9, <1>10

\* A packet fiber keeps its endpoint object until it leaves the maps.
LEMMA FiberLinks ==
    ASSUME EndpointsLinked, BuffersLinked, PluginInv, NEW f \in fibers, PacketFiber(f)
    PROVE  EndpointsLinked' /\ BuffersLinked'
<1>1. UNCHANGED <<unused, delivered, sending, buffer_pool, endpoint_pool>>
  BY DEF PacketFiber, coreVars, Plugin!PacketFiber, Plugin!AppendKnown,
         Plugin!MissLocal, Plugin!RegisterEndpoint, Plugin!InsertEndpoint,
         Plugin!userVars
<1>2. BuffersLinked'
  BY <1>1 DEF BuffersLinked, Core!Memory
<1>3. fibers \subseteq PluginP!Fiber
  BY DEF PluginInv, PluginP!TypeInv, PluginP!TypeOK
<1>4. \/ fibers' = fibers \ {f}
      \/ \E s : fibers' = (fibers \ {f}) \cup {[f EXCEPT !.stage = s]}
  BY DEF PacketFiber, Plugin!PacketFiber, Plugin!AppendKnown, Plugin!MissLocal,
         Plugin!RegisterEndpoint, Plugin!InsertEndpoint
<1>5. CASE \E s : fibers' = (fibers \ {f}) \cup {[f EXCEPT !.stage = s]}
  <2>1. PICK s : fibers' = (fibers \ {f}) \cup {[f EXCEPT !.stage = s]}
    BY <1>5
  <2>2. [f EXCEPT !.stage = s].buffer = f.buffer
    BY <1>3 DEF PluginP!Fiber
  <2>3. \E g \in fibers' : g.buffer = f.buffer
    BY <2>1, <2>2
  <2>4. {g.buffer : g \in fibers'} = {g.buffer : g \in fibers}
    BY <2>1, <2>2
  <2>5. UNCHANGED <<carries, returning>>
    BY <2>3 DEF PacketFiber
  <2>6. Range(carries)' = Range(carries)
    BY <2>5
  <2>7. EndpointsLinked'
    BY <1>1, <2>4, <2>5, <2>6 DEF EndpointsLinked
  <2> QED
    BY <1>2, <2>7
<1>6. CASE fibers' = fibers \ {f}
  <2>1. \A g \in fibers' : g.buffer # f.buffer
    BY <1>6 DEF PluginInv, PluginP!OwnerInv, PluginP!OneFiber
  <2>2. /\ carries' = Restrict(carries, DOMAIN carries \ {f.buffer})
        /\ returning' = returning \cup {carries[f.buffer]}
    BY <2>1 DEF PacketFiber
  <2>3. /\ DOMAIN carries' = DOMAIN carries \ {f.buffer}
        /\ \A c \in DOMAIN carries' : carries'[c] = carries[c]
    BY <2>2 DEF Restrict
  <2>4. f.buffer \in DOMAIN carries
    BY DEF EndpointsLinked
  <2>5. Range(carries)' = Range(carries) \ {carries[f.buffer]}
    BY <2>3, <2>4 DEF EndpointsLinked, Range
  <2>6. carries[f.buffer] \in Range(carries)
    BY <2>4 DEF Range
  <2>7. DOMAIN carries' = {g.buffer : g \in fibers'}
    BY <1>6, <2>1, <2>3 DEF EndpointsLinked
  <2>8. /\ endpoint_pool'.held = Range(carries)' \cup returning'
        /\ Range(carries)' \cap returning' = {}
    BY <1>1, <2>2, <2>5, <2>6 DEF EndpointsLinked
  <2>9. \A a, b \in DOMAIN carries' : a # b => carries'[a] # carries'[b]
    BY <2>3 DEF EndpointsLinked
  <2>10. EndpointsLinked'
    BY <2>7, <2>8, <2>9 DEF EndpointsLinked
  <2> QED
    BY <1>2, <2>10
<1> QED
  BY <1>4, <1>5, <1>6

\* User code gives a buffer back: it leaves what is held and what is delivered.
LEMMA RecycleLinks ==
    ASSUME CoreInv, PluginInv, EndpointsLinked, BuffersLinked,
           NEW b \in delivered, Recycle(b), UNCHANGED <<carries, returning>>,
           sending' \in {sending, sending \ {b}}, b \in sending => b \notin sending'
    PROVE  EndpointsLinked' /\ BuffersLinked'
<1>1. b \in Core!Memory
  BY DEF PluginInv, PluginP!TypeInv, PluginP!TypeOK, Core!Memory
<1>2. /\ buffer_pool'.held = buffer_pool.held \ {b}
      /\ endpoint_pool' = endpoint_pool
  BY DEF Recycle, Core!ReleaseNetworkBuffer, Core!Release, CoreInv, CoreP!TypeInv,
         CoreP!TypeOK, CoreP!Pool
<1>3. unused' = unused \cup {b} /\ delivered' = delivered \ {b} /\ fibers' = fibers
  BY DEF Recycle
<1>4. Range(carries)' = Range(carries)
  OBVIOUS
<1>5. EndpointsLinked'
  BY <1>2, <1>3, <1>4 DEF EndpointsLinked
<1>6. BuffersLinked'
  BY <1>1, <1>2, <1>3 DEF BuffersLinked, Core!Memory
<1> QED
  BY <1>5, <1>6


\* The links of the initial state are kept.
LEMMA NextLinked ==
    CoreInv /\ PluginInv /\ EndpointsLinked /\ BuffersLinked /\ [Next]_vars
        => EndpointsLinked' /\ BuffersLinked'
<1> SUFFICES ASSUME CoreInv, PluginInv, EndpointsLinked, BuffersLinked, [Next]_vars
             PROVE  EndpointsLinked' /\ BuffersLinked'
  OBVIOUS
<1>1. ASSUME buffer_pool'.held = buffer_pool.held,
             endpoint_pool'.held = endpoint_pool.held,
             unused' = unused, fibers' = fibers, delivered \subseteq delivered',
             UNCHANGED <<carries, returning>>,
             sending' = sending \/ sending' \subseteq delivered
      PROVE  EndpointsLinked' /\ BuffersLinked'
  <2>1. Range(carries)' = Range(carries)
    BY <1>1
  <2> QED
    BY <1>1, <2>1 DEF EndpointsLinked, BuffersLinked, Core!Memory
<1>2. ASSUME CoreAlone \/ UNCHANGED coreVars, UNCHANGED <<pluginVars, linkVars>>
      PROVE  EndpointsLinked' /\ BuffersLinked'
  <2>1. /\ buffer_pool'.held = buffer_pool.held
        /\ endpoint_pool'.held = endpoint_pool.held
    BY <1>2, AloneHeld DEF coreVars
  <2> QED
    BY <1>1, <1>2, <2>1 DEF pluginVars, linkVars
<1>3. CASE Start \/ MainLoop \/ StopCalled \/ Stop
  BY <1>2, <1>3, Zenon DEF Start, MainLoop, StopCalled, Stop, CoreAlone
<1>4. ASSUME NEW t \in Core!Chain, NEW i \in Core!Chain, NEW e \in Endpoint,
             PacketReceived(t, i, e)
      PROVE  EndpointsLinked' /\ BuffersLinked'
  BY <1>4, ReceiveLinks
<1>5. ASSUME NEW t \in Core!Chain,
             NetworkThread(t) \/ \E i \in Core!Chain : ReceiveFailed(t, i)
      PROVE  EndpointsLinked' /\ BuffersLinked'
  BY <1>2, <1>5, Zenon DEF NetworkThread, ReceiveFailed, CoreAlone
<1>6. CASE Tick
  <2>1. /\ buffer_pool'.held = buffer_pool.held
        /\ endpoint_pool'.held = endpoint_pool.held
    BY <1>6, AloneHeld DEF Tick, CoreAlone, Core!MainLoop, coreVars
  <2>2. UNCHANGED <<unused, fibers, delivered>>
    BY <1>6 DEF Tick, Plugin!Tick, Plugin!TestNewEndpoints, Plugin!CreateClients,
           Plugin!TestPendingInputs, Plugin!Accumulate, Plugin!DispatchInputs,
           Plugin!FinishInputs, Plugin!EraseData, Plugin!LockLocal,
           Plugin!EraseEndpoint, Plugin!ClearLocal, Plugin!OnDisconnected,
           Plugin!EndDisconnects, Plugin!packetVars, Plugin!userVars
  <2> QED
    BY <1>1, <1>6, <2>1, <2>2 DEF Tick, linkVars
<1>7. ASSUME NEW f \in fibers, PacketFiber(f)
      PROVE  EndpointsLinked' /\ BuffersLinked'
  BY <1>7, FiberLinks
<1>8. ASSUME NEW m \in Core!Memory, ReleaseEndpoint(m)
      PROVE  EndpointsLinked' /\ BuffersLinked'
  <2>1. /\ endpoint_pool'.held = endpoint_pool.held \ {m}
        /\ returning' = returning \ {m} /\ m \in returning
        /\ UNCHANGED <<buffer_pool, unused, fibers, delivered, carries, sending>>
    BY <1>8 DEF ReleaseEndpoint, Core!ReleaseNetworkEndpoint, Core!Release,
            pluginVars, CoreInv, CoreP!TypeInv, CoreP!TypeOK, CoreP!Pool
  <2>2. Range(carries)' = Range(carries)
    BY <2>1
  <2> QED
    BY <2>1, <2>2 DEF EndpointsLinked, BuffersLinked, Core!Memory
<1>9. ASSUME NEW e \in inputs, ClientInputs(e)
      PROVE  EndpointsLinked' /\ BuffersLinked'
  <2>1. UNCHANGED <<unused, fibers>> /\ delivered \subseteq delivered'
    BY <1>9 DEF ClientInputs, Plugin!ClientInputs, Plugin!packetVars
  <2> QED
    BY <1>1, <1>9, <2>1 DEF ClientInputs, coreVars, linkVars
<1>10. ASSUME NEW b \in delivered, UserReturns(b)
       PROVE  EndpointsLinked' /\ BuffersLinked'
  <2>1. CASE ReleaseBuffer(b)
    BY <2>1, RecycleLinks DEF ReleaseBuffer, linkVars
  <2>2. CASE SendData(b)
    <3>1. sending' \subseteq delivered
      BY <2>2 DEF SendData, BuffersLinked
    <3> QED
      BY <1>1, <2>2, <3>1 DEF SendData, coreVars, pluginVars
  <2> QED
    BY <1>10, <2>1, <2>2 DEF UserReturns
<1>11. ASSUME NEW t \in Core!Chain, NEW b \in sending, SendCompletes(t, b)
       PROVE  EndpointsLinked' /\ BuffersLinked'
  <2>1. b \in delivered
    BY <1>11 DEF BuffersLinked
  <2> QED
    BY <1>11, <2>1, RecycleLinks DEF SendCompletes
<1>12. ASSUME NEW e \in clients, Disconnect(e)
       PROVE  EndpointsLinked' /\ BuffersLinked'
  BY <1>1, <1>12 DEF Disconnect, Plugin!Disconnect, Plugin!packetVars,
         Plugin!userVars, coreVars, linkVars
<1>13. CASE UNCHANGED vars
  BY <1>2, <1>13 DEF vars
<1> QED
  BY <1>3, <1>4, <1>5, <1>6, <1>7, <1>8, <1>9, <1>10, <1>11, <1>12, <1>13, Zenon
     DEF Next

\* All of it, in every state.
LEMMA ServerInvariant ==
    Spec => [](CoreInv /\ PluginInv /\ EndpointsLinked /\ BuffersLinked)
<1>1. Init => CoreInv /\ PluginInv
  BY CoreKept, PluginKept DEF Init
<1>2. BuffersLinked => (sending \subseteq delivered)
  BY DEF BuffersLinked
<1> QED
  BY <1>1, <1>2, InitLinked, CoreKept, PluginKept, NextLinked, PTL DEF Spec

----------------------------------------------------------------------------
(***************************************************************************)
(* The theorems.                                                           *)
(***************************************************************************)

\* In the composition the core loop does nothing it would not do alone, so that
\* all that is proved of it holds in the server too.
THEOREM CoreLoopUndisturbed == Spec => CoreP!Spec
<1>1. Init => CoreP!Init
  BY SameCore DEF Init
<1>2. CoreInv /\ [Next]_vars => [CoreP!Next]_(CoreP!vars)
  BY NextIsCore, Zenon DEF CoreInv
<1> QED
  BY <1>1, <1>2, ServerInvariant, PTL DEF Spec, CoreP!Spec

\* No endpoint object the core loop handed out is lost between it and the packet
\* fibers, none is with two fibers, and no receive writes into one of them.
THEOREM EndpointsAlwaysOwned == Spec => []EndpointsOwned
<1>1. CoreInv /\ EndpointsLinked => EndpointsOwned
  BY WrittenNotHeld DEF EndpointsLinked, EndpointsOwned
<1> QED
  BY <1>1, ServerInvariant, PTL

\* Every buffer the core loop handed out is in one place with the plugin or with
\* user code, also while it is being sent, and neither free nor received into.
THEOREM BuffersAlwaysOwned == Spec => []BuffersOwned
<1>1. PluginInv => Plugin!OneOwner
  BY SamePlugin, PluginP!OwnerMeansOne, Constants DEF PluginInv
<1>2. CoreInv /\ PluginInv /\ BuffersLinked => BuffersOwned
  BY <1>1, WrittenNotHeld DEF BuffersLinked, BuffersOwned
<1> QED
  BY <1>2, ServerInvariant, PTL

\* When the core pool was joined the main loop has ended, and before it every
\* network thread has left io_context::run().
LEMMA JoinedHasEnded ==
    CoreInv /\ PoolJoined =>
        /\ main = "done"
        /\ \A t \in Core!Chain : thread[t] # Core!Idle
<1> SUFFICES ASSUME CoreInv, PoolJoined
             PROVE  main = "done" /\ \A t \in Core!Chain : thread[t] # Core!Idle
  OBVIOUS
<1>1. main = "done"
  BY DEF CoreInv, PoolJoined, CoreP!EndInv, CoreP!WaitersPast, CoreP!CoreJoined
<1>2. \A t \in CoreP!Chain : thread[t] = CoreP!Exited
  BY <1>1, ConstantsAssumption
     DEF CoreInv, CoreP!EndInv, CoreP!JoinedExited, CoreP!Chain
<1> QED
  BY <1>1, <1>2 DEF Core!Chain, CoreP!Chain, Core!Idle, CoreP!Exited

\* Nobody touches the plugin after the core pool was joined: not its fibers, not
\* tick(), and no network thread, however late.
THEOREM NothingAfterJoin == Spec => QuietAfterJoin
<1>1. CoreInv /\ [Next]_vars => (PoolJoined => UNCHANGED pluginVars)
  <2> SUFFICES ASSUME CoreInv, [Next]_vars, PoolJoined PROVE UNCHANGED pluginVars
    OBVIOUS
  <2>1. /\ main = "done" /\ ~PoolRuns
        /\ \A t \in Core!Chain : thread[t] # Core!Idle
    BY JoinedHasEnded DEF PoolRuns
  <2>2. CASE \/ Start \/ MainLoop \/ StopCalled \/ Stop
             \/ \E t, i \in Core!Chain : ReceiveFailed(t, i)
             \/ \E t \in Core!Chain : NetworkThread(t)
    BY <2>2, Zenon DEF Start, MainLoop, StopCalled, Stop, ReceiveFailed, NetworkThread
  <2>3. ~\E t, i \in Core!Chain, e \in Endpoint : PacketReceived(t, i, e)
    BY <2>1, Zenon DEF PacketReceived, Core!PacketReceived, Core!Completes
  <2>4. ~Tick
    BY <2>1 DEF Tick
  <2>5. /\ ~\E f \in fibers : PacketFiber(f)
        /\ ~\E m \in Core!Memory : ReleaseEndpoint(m)
        /\ ~\E e \in inputs : ClientInputs(e)
        /\ ~\E b \in delivered : UserReturns(b)
        /\ ~\E e \in clients : Disconnect(e)
    BY <2>1, Zenon DEF PacketFiber, ReleaseEndpoint, ClientInputs, UserReturns,
           ReleaseBuffer, SendData, Disconnect
  <2>6. ~\E t \in Core!Chain, b \in sending : SendCompletes(t, b)
    BY <2>1, Zenon DEF SendCompletes
  <2>7. CASE UNCHANGED vars
    BY <2>7 DEF vars
  <2> QED
    BY <2>2, <2>3, <2>4, <2>5, <2>6, <2>7, Zenon DEF Next
<1> QED
  BY <1>1, ServerInvariant, PTL DEF Spec, QuietAfterJoin

=============================================================================
