---------------------------- MODULE CoreLoopProofs ----------------------------
(***************************************************************************)
(* Proofs about CoreLoop, for any number of network threads and of objects.*)
(***************************************************************************)
EXTENDS CoreLoop, TLAPS

----------------------------------------------------------------------------
(***************************************************************************)
(* Type correctness. Two facts are needed beside the types: the barrier is *)
(* never passed by more than its two participants, and start() creates no  *)
(* thread after the last.                                                  *)
(***************************************************************************)

\* One for a participant of the barrier that has arrived at it.
StarterArrived == IF starter = "barrier" \/ (starter = "returned" /\ join_pools)
                  THEN 1 ELSE 0
StopperArrived == IF stopper = "barrier" \/ (stopper = "returned" /\ join_pools)
                  THEN 1 ELSE 0

\* Who uses the barrier: start() and stop() if start() joins the pools, nobody
\* otherwise.
BarrierUse ==
    /\ arrived = StarterArrived + StopperArrived
    /\ must_join = IF starter \in {"network", "database", "running"} THEN "unset"
                   ELSE IF join_pools THEN "no" ELSE "yes"
    /\ starter \in {"join_core", "join_database", "signal", "barrier"} => join_pools
    /\ stopper \in {"signal", "barrier"} => join_pools
    /\ stopper \in {"join_core", "join_database"} => ~join_pools
    /\ stopper # "idle" => starter \notin {"network", "database", "running"}

TypeInv == TypeOK /\ BarrierUse

\* get() returns an object of the pool and leaves a pool.
LEMMA GetType ==
    ASSUME NEW pool \in Pool, NEW m \in Available(pool)
    PROVE  m \in Memory /\ Get(pool, m) \in Pool
<1>1. /\ pool.allocated \in 0 .. MaxObjects
      /\ pool.free \subseteq 1 .. MaxObjects
      /\ pool.held \subseteq 1 .. MaxObjects
  BY DEF Pool, Memory
<1>2. m \in 1 .. MaxObjects
  BY <1>1, ConstantsAssumption DEF Available
<1>3. (IF m > pool.allocated THEN m ELSE pool.allocated) \in 0 .. MaxObjects
  BY <1>1, <1>2, ConstantsAssumption
<1> QED
  BY <1>1, <1>2, <1>3 DEF Pool, Get, Memory

\* release() leaves a pool, and so does handing an object to the plugins.
LEMMA ReleaseType ==
    ASSUME NEW pool \in Pool, NEW m \in Memory
    PROVE  Release(pool, m) \in Pool /\ Hand(pool, m) \in Pool
BY DEF Pool, Release, Hand

\* handle_connections() keeps the types of what it changes.
LEMMA HandleConnectionsType ==
    ASSUME TypeOK, NEW i \in Chain, HandleConnections(i)
    PROVE  /\ receiving' \in [Chain -> {<<>>} \cup Memory \X Memory]
           /\ buffers' \in Pool
           /\ endpoints' \in Pool
BY GetType DEF TypeOK, HandleConnections

\* The variables have their types in the initial state.
LEMMA InitType == Init => TypeInv
<1> SUFFICES ASSUME Init PROVE TypeInv
  OBVIOUS
<1>1. [allocated |-> 0, free |-> {}, held |-> {}] \in Pool
  BY ConstantsAssumption DEF Pool
<1>2. /\ thread \in [Chain -> {NoThread, Idle, Exited} \cup Chain]
      /\ receiving \in [Chain -> {<<>>} \cup Memory \X Memory]
  BY DEF Init
<1>3. /\ arrived \in 0 .. 2
      /\ created \in 0 .. NetworkThreads
      /\ joined \in 0 .. NetworkThreads
  BY ConstantsAssumption DEF Init
<1>4. TypeOK
  BY <1>1, <1>2, <1>3 DEF Init, TypeOK
<1>5. BarrierUse
  BY DEF Init, BarrierUse, StarterArrived, StopperArrived
<1> QED
  BY <1>4, <1>5 DEF TypeInv

\* Every step keeps the types of the variables.
LEMMA NextType == TypeInv /\ [Next]_vars => TypeInv'
<1> SUFFICES ASSUME TypeInv, [Next]_vars PROVE TypeInv'
  OBVIOUS
<1> USE ConstantsAssumption DEF TypeInv, TypeOK, BarrierUse, StarterArrived,
        StopperArrived, startVars, poolVars, flagVars, memoryVars
<1>1. CASE Start
  <2>1. CASE StartNetwork
    <3>1. created \in Chain
      BY <2>1 DEF StartNetwork, Chain
    <3>2. /\ receiving' \in [Chain -> {<<>>} \cup Memory \X Memory]
          /\ buffers' \in Pool
          /\ endpoints' \in Pool
      BY <2>1, <3>1, HandleConnectionsType DEF StartNetwork
    <3>3. thread' \in [Chain -> {NoThread, Idle, Exited} \cup Chain]
      BY <2>1, <3>1 DEF StartNetwork
    <3>4. created' \in 0 .. NetworkThreads
      BY <2>1 DEF StartNetwork
    <3> QED
      BY <2>1, <3>2, <3>3, <3>4 DEF StartNetwork
  <2>2. CASE StartDatabase
    BY <2>2 DEF StartDatabase
  <2>3. CASE PushMainLoop
    BY <2>3 DEF PushMainLoop
  <2>4. CASE StartCore
    BY <2>4 DEF StartCore
  <2>5. CASE StartJoinCore
    BY <2>5 DEF StartJoinCore
  <2>6. CASE StartJoinDatabase
    BY <2>6 DEF StartJoinDatabase
  <2>7. CASE StartSignal
    BY <2>7 DEF StartSignal
  <2>8. CASE StartReturn
    BY <2>8 DEF StartReturn
  <2> QED
    BY <1>1, <2>1, <2>2, <2>3, <2>4, <2>5, <2>6, <2>7, <2>8 DEF Start
<1>2. CASE MainLoop
  <2>1. CASE MainTest
    BY <2>1 DEF MainTest
  <2>2. CASE MainIterate
    BY <2>2 DEF MainIterate
  <2>3. CASE MainEndCore
    BY <2>3 DEF MainEndCore
  <2>4. CASE MainEndDatabase
    BY <2>4 DEF MainEndDatabase
  <2>5. CASE MainStopNetwork
    BY <2>5 DEF MainStopNetwork
  <2>6. CASE MainJoinNetwork
    BY <2>6 DEF MainJoinNetwork
  <2>7. CASE MainDone
    BY <2>7 DEF MainDone
  <2> QED
    BY <1>2, <2>1, <2>2, <2>3, <2>4, <2>5, <2>6, <2>7 DEF MainLoop
<1>3. CASE StopCalled
  <2>1. stopper' \in {"join_core", "signal"} /\ running' \in BOOLEAN
    BY <1>3 DEF StopCalled
  <2>2. UNCHANGED <<join_pools, with_database, starter, main, must_join,
                    core_pool, database_pool, arrived, stopped, created,
                    joined, thread, receiving, buffers, endpoints>>
    BY <1>3 DEF StopCalled
  <2>3. TypeOK'
    BY <2>1, <2>2
  <2>4. BarrierUse'
    BY <1>3 DEF StopCalled
  <2> QED
    BY <2>3, <2>4
<1>4. CASE Stop
  <2>1. CASE StopJoinCore
    BY <2>1 DEF StopJoinCore
  <2>2. CASE StopJoinDatabase
    BY <2>2 DEF StopJoinDatabase
  <2>3. CASE StopSignal
    BY <2>3 DEF StopSignal
  <2>4. CASE StopReturn
    BY <2>4 DEF StopReturn
  <2> QED
    BY <1>4, <2>1, <2>2, <2>3, <2>4 DEF Stop
<1>5. ASSUME NEW t \in Chain, NEW i \in Chain, PacketReceived(t, i)
      PROVE  TypeInv'
  <2>1. receiving[i] \in Memory \X Memory
    BY <1>5 DEF PacketReceived, Completes
  <2>2. buffers' \in Pool /\ endpoints' \in Pool
    BY <1>5, <2>1, ReleaseType DEF PacketReceived
  <2> QED
    BY <1>5, <2>2 DEF PacketReceived, Completes
<1>6. ASSUME NEW t \in Chain, NEW i \in Chain, ReceiveFailed(t, i)
      PROVE  TypeInv'
  <2>1. receiving[i] \in Memory \X Memory
    BY <1>6 DEF ReceiveFailed, Completes
  <2>2. buffers' \in Pool /\ endpoints' \in Pool
    BY <1>6, <2>1, ReleaseType DEF ReceiveFailed
  <2> QED
    BY <1>6, <2>2 DEF ReceiveFailed, Completes
<1>7. ASSUME NEW t \in Chain, HandleAgain(t)
      PROVE  TypeInv'
  <2>1. /\ receiving' \in [Chain -> {<<>>} \cup Memory \X Memory]
        /\ buffers' \in Pool
        /\ endpoints' \in Pool
    BY <1>7, HandleConnectionsType DEF HandleAgain
  <2>2. thread' \in [Chain -> {NoThread, Idle, Exited} \cup Chain]
    BY <1>7 DEF HandleAgain
  <2> QED
    BY <1>7, <2>1, <2>2 DEF HandleAgain
<1>8. ASSUME NEW t \in Chain, RunReturns(t)
      PROVE  TypeInv'
  BY <1>8 DEF RunReturns
<1>9. ASSUME NEW m \in Memory, ReleaseNetworkBuffer(m)
      PROVE  TypeInv'
  BY <1>9, ReleaseType DEF ReleaseNetworkBuffer
<1>10. ASSUME NEW m \in Memory, ReleaseNetworkEndpoint(m)
      PROVE  TypeInv'
  BY <1>10, ReleaseType DEF ReleaseNetworkEndpoint
<1>11. CASE UNCHANGED vars
  BY <1>11 DEF vars
<1> QED
  BY <1>1, <1>2, <1>3, <1>4, <1>5, <1>6, <1>7, <1>8, <1>9, <1>10, <1>11
     DEF Next, Receive

\* The variables of the core loop always have their types.
THEOREM TypeCorrect == Spec => []TypeOK
<1> QED
  BY InitType, NextType, PTL DEF Spec, TypeInv

----------------------------------------------------------------------------
(***************************************************************************)
(* The chains of receives: a chain that start() has begun is armed, or one *)
(* thread runs its handler.                                                *)
(***************************************************************************)

\* What lets a handler arm its chain again: nobody else has done so.
ChainInv ==
    /\ starter # "network" => created = NetworkThreads
    /\ \A i \in Chain : i >= created => receiving[i] = <<>> /\ thread[i] = NoThread
    /\ \A t \in Chain : thread[t] \in Chain =>
          thread[t] < created /\ receiving[thread[t]] = <<>>
    /\ \A t, u \in Chain : t # u /\ thread[t] \in Chain => thread[t] # thread[u]

\* No chain is begun in the initial state.
LEMMA InitChain == Init => ChainInv
BY DEF Init, ChainInv, NoThread, Chain

\* Every step keeps the chains in order.
LEMMA NextChain == TypeOK /\ ChainInv /\ [Next]_vars => ChainInv'
<1> SUFFICES ASSUME TypeOK /\ ChainInv, [Next]_vars PROVE ChainInv'
  OBVIOUS
<1> USE ConstantsAssumption DEF TypeOK, ChainInv, startVars, poolVars, flagVars,
        memoryVars
<1>1. CASE Start
  <2>1. CASE StartNetwork
    <3>1. created \in Chain /\ created' = created + 1 /\ UNCHANGED starter
      BY <2>1 DEF StartNetwork, Chain
    <3>2. /\ \A i \in Chain : i # created => receiving'[i] = receiving[i]
          /\ \A i \in Chain : i # created => thread'[i] = thread[i]
          /\ thread'[created] \notin Chain
      BY <2>1, <3>1 DEF StartNetwork, HandleConnections, Idle, Chain
    <3> QED
      BY <2>1, <3>1, <3>2 DEF StartNetwork, Chain
  <2>2. CASE StartDatabase
    BY <2>2 DEF StartDatabase
  <2>3. CASE PushMainLoop
    BY <2>3 DEF PushMainLoop
  <2>4. CASE StartCore
    BY <2>4 DEF StartCore
  <2>5. CASE StartJoinCore
    BY <2>5 DEF StartJoinCore
  <2>6. CASE StartJoinDatabase
    BY <2>6 DEF StartJoinDatabase
  <2>7. CASE StartSignal
    BY <2>7 DEF StartSignal
  <2>8. CASE StartReturn
    BY <2>8 DEF StartReturn
  <2> QED
    BY <1>1, <2>1, <2>2, <2>3, <2>4, <2>5, <2>6, <2>7, <2>8 DEF Start
<1>2. CASE MainLoop
  <2>1. CASE MainTest
    BY <2>1 DEF MainTest
  <2>2. CASE MainIterate
    BY <2>2 DEF MainIterate
  <2>3. CASE MainEndCore
    BY <2>3 DEF MainEndCore
  <2>4. CASE MainEndDatabase
    BY <2>4 DEF MainEndDatabase
  <2>5. CASE MainStopNetwork
    BY <2>5 DEF MainStopNetwork
  <2>6. CASE MainJoinNetwork
    BY <2>6 DEF MainJoinNetwork
  <2>7. CASE MainDone
    BY <2>7 DEF MainDone
  <2> QED
    BY <1>2, <2>1, <2>2, <2>3, <2>4, <2>5, <2>6, <2>7 DEF MainLoop
<1>3. CASE StopCalled
  BY <1>3 DEF StopCalled
<1>4. CASE Stop
  <2>1. CASE StopJoinCore
    BY <2>1 DEF StopJoinCore
  <2>2. CASE StopJoinDatabase
    BY <2>2 DEF StopJoinDatabase
  <2>3. CASE StopSignal
    BY <2>3 DEF StopSignal
  <2>4. CASE StopReturn
    BY <2>4 DEF StopReturn
  <2> QED
    BY <1>4, <2>1, <2>2, <2>3, <2>4 DEF Stop
<1>5. ASSUME NEW t \in Chain, NEW i \in Chain, PacketReceived(t, i)
      PROVE  ChainInv'
  <2>1. thread[t] \notin Chain /\ thread[t] # NoThread /\ receiving[i] # <<>>
    BY <1>5 DEF PacketReceived, Completes, Idle, NoThread, Chain
  <2>2. /\ receiving' = [receiving EXCEPT ![i] = <<>>]
        /\ thread' = [thread EXCEPT ![t] = i]
        /\ UNCHANGED <<starter, created>>
    BY <1>5 DEF PacketReceived, Completes
  <2> QED
    BY <2>1, <2>2 DEF Chain
<1>6. ASSUME NEW t \in Chain, NEW i \in Chain, ReceiveFailed(t, i)
      PROVE  ChainInv'
  <2>1. thread[t] \notin Chain /\ thread[t] # NoThread /\ receiving[i] # <<>>
    BY <1>6 DEF ReceiveFailed, Completes, Idle, NoThread, Chain
  <2>2. /\ receiving' = [receiving EXCEPT ![i] = <<>>]
        /\ thread' = [thread EXCEPT ![t] = i]
        /\ UNCHANGED <<starter, created>>
    BY <1>6 DEF ReceiveFailed, Completes
  <2> QED
    BY <2>1, <2>2 DEF Chain
<1>7. ASSUME NEW t \in Chain, HandleAgain(t)
      PROVE  ChainInv'
  <2>1. /\ \A i \in Chain : i # thread[t] => receiving'[i] = receiving[i]
        /\ thread' = [thread EXCEPT ![t] = Idle]
        /\ thread[t] \in Chain
        /\ UNCHANGED <<starter, created>>
    BY <1>7 DEF HandleAgain, HandleConnections
  <2>2. Idle \notin Chain /\ NoThread \notin Chain
    BY DEF Idle, NoThread, Chain
  <2>3. /\ thread'[t] = Idle
        /\ \A u \in Chain : u # t => thread'[u] = thread[u] /\ thread[u] # thread[t]
    BY <2>1
  <2>4. \A i \in Chain : i >= created => receiving'[i] = <<>> /\ thread'[i] = NoThread
    <3> SUFFICES ASSUME NEW i \in Chain, i >= created
                 PROVE  receiving'[i] = <<>> /\ thread'[i] = NoThread
      BY <2>1
    <3>1. i # thread[t] /\ i # t
      BY <2>1, <2>2 DEF Chain
    <3> QED
      BY <2>1, <2>3, <3>1
  <2>5. \A u \in Chain : thread'[u] \in Chain =>
          thread'[u] < created /\ receiving'[thread'[u]] = <<>>
    BY <2>1, <2>2, <2>3
  <2>6. \A u, w \in Chain : u # w /\ thread'[u] \in Chain => thread'[u] # thread'[w]
    BY <2>2, <2>3
  <2> QED
    BY <2>1, <2>4, <2>5, <2>6
<1>8. ASSUME NEW t \in Chain, RunReturns(t)
      PROVE  ChainInv'
  BY <1>8 DEF RunReturns, Idle, Exited, NoThread, Chain
<1>9. ASSUME NEW m \in Memory, ReleaseNetworkBuffer(m)
      PROVE  ChainInv'
  BY <1>9 DEF ReleaseNetworkBuffer
<1>10. ASSUME NEW m \in Memory, ReleaseNetworkEndpoint(m)
      PROVE  ChainInv'
  BY <1>10 DEF ReleaseNetworkEndpoint
<1>11. CASE UNCHANGED vars
  BY <1>11 DEF vars
<1> QED
  BY <1>1, <1>2, <1>3, <1>4, <1>5, <1>6, <1>7, <1>8, <1>9, <1>10, <1>11
     DEF Next, Receive

----------------------------------------------------------------------------
(***************************************************************************)
(* Memory: MemoryIsOwned and NothingLeaks, pool by pool.                   *)
(***************************************************************************)

\* The objects of a pool are those being received into, W, the free ones and
\* those the plugins hold, and no object is two of these.
Accounts(pool, W) ==
    /\ 1 .. pool.allocated = W \cup pool.free \cup pool.held
    /\ W \cap (pool.free \cup pool.held) = {}
    /\ pool.free \cap pool.held = {}

\* get() takes an object that nobody uses.
LEMMA GetAccounts ==
    ASSUME NEW pool \in Pool, NEW W, Accounts(pool, W), NEW m \in Available(pool)
    PROVE  m \notin W /\ Accounts(Get(pool, m), W \cup {m})
<1>1. pool.allocated \in Nat
  BY ConstantsAssumption DEF Pool
<1>2. CASE m \in pool.free
  <2>1. m \in 1 .. pool.allocated
    BY <1>2 DEF Accounts
  <2>2. /\ Get(pool, m).allocated = pool.allocated
        /\ Get(pool, m).free = pool.free \ {m}
        /\ Get(pool, m).held = pool.held
    BY <1>1, <2>1 DEF Pool, Get
  <2> QED
    BY <1>2, <2>2 DEF Accounts
<1>3. CASE m = pool.allocated + 1
  <2>1. m \notin 1 .. pool.allocated /\ m > pool.allocated
    BY <1>1, <1>3
  <2>2. /\ Get(pool, m).allocated = m
        /\ Get(pool, m).free = pool.free \ {m}
        /\ Get(pool, m).held = pool.held
    BY <1>1, <2>1 DEF Pool, Get
  <2>3. 1 .. m = (1 .. pool.allocated) \cup {m}
    BY <1>1, <1>3
  <2> QED
    BY <2>1, <2>2, <2>3 DEF Accounts
<1> QED
  BY <1>2, <1>3 DEF Available

\* A handler passes the object it received into on, or releases it.
LEMMA DoneAccounts ==
    ASSUME NEW pool \in Pool, NEW W, Accounts(pool, W), NEW m \in W
    PROVE  /\ Accounts(Hand(pool, m), W \ {m})
           /\ Accounts(Release(pool, m), W \ {m})
<1>1. /\ Hand(pool, m).allocated = pool.allocated
      /\ Hand(pool, m).free = pool.free
      /\ Hand(pool, m).held = pool.held \cup {m}
  BY DEF Pool, Hand
<1>2. /\ Release(pool, m).allocated = pool.allocated
      /\ Release(pool, m).free = pool.free \cup {m}
      /\ Release(pool, m).held = pool.held \ {m}
  BY DEF Pool, Release
<1> QED
  BY <1>1, <1>2 DEF Accounts

\* A plugin releases an object it holds.
LEMMA ReleaseAccounts ==
    ASSUME NEW pool \in Pool, NEW W, Accounts(pool, W), NEW m \in pool.held
    PROVE  Accounts(Release(pool, m), W)
<1>1. /\ Release(pool, m).allocated = pool.allocated
      /\ Release(pool, m).free = pool.free \cup {m}
      /\ Release(pool, m).held = pool.held \ {m}
  BY DEF Pool, Release
<1> QED
  BY <1>1 DEF Accounts

\* Two chains never receive into the same object.
Distinct(k) ==
    \A i, j \in Chain : i # j /\ receiving[i] # <<>> /\ receiving[j] # <<>> =>
        receiving[i][k] # receiving[j][k]

MemoryInv ==
    /\ Distinct(1)
    /\ Distinct(2)
    /\ Accounts(buffers, Written(1))
    /\ Accounts(endpoints, Written(2))

\* Arming a chain that is not armed adds its object to those received into.
LEMMA ArmWrites ==
    ASSUME TypeOK, NEW i \in Chain, receiving[i] = <<>>, NEW b, NEW e,
           receiving' = [receiving EXCEPT ![i] = <<b, e>>]
    PROVE  /\ Written(1)' = Written(1) \cup {b}
           /\ Written(2)' = Written(2) \cup {e}
           /\ Distinct(1) /\ b \notin Written(1) => Distinct(1)'
           /\ Distinct(2) /\ e \notin Written(2) => Distinct(2)'
<1>1. <<b, e>> # <<>>
  OBVIOUS
<1>2. /\ receiving'[i] = <<b, e>>
      /\ \A j \in Chain : j # i => receiving'[j] = receiving[j]
  BY DEF TypeOK
<1>3. {j \in Chain : receiving'[j] # <<>>} = {j \in Chain : receiving[j] # <<>>} \cup {i}
  BY <1>1, <1>2
<1>4. Written(1)' = Written(1) \cup {b}
  BY <1>2, <1>3 DEF Written
<1>5. Written(2)' = Written(2) \cup {e}
  BY <1>2, <1>3 DEF Written
<1>6. Distinct(1) /\ b \notin Written(1) => Distinct(1)'
  BY <1>1, <1>2 DEF Distinct, Written
<1>7. Distinct(2) /\ e \notin Written(2) => Distinct(2)'
  BY <1>1, <1>2 DEF Distinct, Written
<1> QED
  BY <1>4, <1>5, <1>6, <1>7

\* A completion takes the chain's object from those received into.
LEMMA CompleteWrites ==
    ASSUME TypeOK, NEW i \in Chain, receiving[i] # <<>>,
           receiving' = [receiving EXCEPT ![i] = <<>>]
    PROVE  /\ receiving[i][1] \in Written(1)
           /\ receiving[i][2] \in Written(2)
           /\ Distinct(1) => Distinct(1)' /\ Written(1)' = Written(1) \ {receiving[i][1]}
           /\ Distinct(2) => Distinct(2)' /\ Written(2)' = Written(2) \ {receiving[i][2]}
<1>1. /\ receiving'[i] = <<>>
      /\ \A j \in Chain : j # i => receiving'[j] = receiving[j]
  BY DEF TypeOK
<1>2. {j \in Chain : receiving'[j] # <<>>} = {j \in Chain : receiving[j] # <<>>} \ {i}
  BY <1>1
<1>3. receiving[i][1] \in Written(1) /\ receiving[i][2] \in Written(2)
  BY DEF Written
<1>4. ASSUME Distinct(1)
      PROVE  Distinct(1)' /\ Written(1)' = Written(1) \ {receiving[i][1]}
  BY <1>1, <1>2, <1>4 DEF Distinct, Written
<1>5. ASSUME Distinct(2)
      PROVE  Distinct(2)' /\ Written(2)' = Written(2) \ {receiving[i][2]}
  BY <1>1, <1>2, <1>5 DEF Distinct, Written
<1> QED
  BY <1>3, <1>4, <1>5

\* No object is used in the initial state.
LEMMA InitMemory == Init => MemoryInv
<1> SUFFICES ASSUME Init PROVE MemoryInv
  OBVIOUS
<1>1. Written(1) = {} /\ Written(2) = {} /\ Distinct(1) /\ Distinct(2)
  BY DEF Init, Written, Distinct
<1>2. Accounts([allocated |-> 0, free |-> {}, held |-> {}], {})
  BY DEF Accounts
<1> QED
  BY <1>1, <1>2 DEF Init, MemoryInv

\* A chain that is not armed is armed with objects nobody uses.
LEMMA ArmMemory ==
    ASSUME TypeOK, MemoryInv, NEW i \in Chain, receiving[i] = <<>>,
           HandleConnections(i)
    PROVE  MemoryInv'
<1>1. PICK b \in Available(buffers), e \in Available(endpoints) :
        /\ buffers' = Get(buffers, b)
        /\ endpoints' = Get(endpoints, e)
        /\ receiving' = [receiving EXCEPT ![i] = <<b, e>>]
  BY DEF HandleConnections
<1>2. buffers \in Pool /\ endpoints \in Pool
  BY DEF TypeOK
<1>3. b \notin Written(1) /\ Accounts(buffers', Written(1) \cup {b})
  BY <1>1, <1>2, GetAccounts DEF MemoryInv
<1>4. e \notin Written(2) /\ Accounts(endpoints', Written(2) \cup {e})
  BY <1>1, <1>2, GetAccounts DEF MemoryInv
<1>5. /\ Written(1)' = Written(1) \cup {b}
      /\ Written(2)' = Written(2) \cup {e}
      /\ Distinct(1)'
      /\ Distinct(2)'
  BY <1>1, <1>3, <1>4, ArmWrites DEF MemoryInv
<1> QED
  BY <1>3, <1>4, <1>5 DEF MemoryInv, Accounts

\* Every step keeps the account of the objects.
LEMMA NextMemory == TypeOK /\ ChainInv /\ MemoryInv /\ [Next]_vars => MemoryInv'
<1> SUFFICES ASSUME TypeOK /\ ChainInv /\ MemoryInv, [Next]_vars PROVE MemoryInv'
  OBVIOUS
<1> USE DEF startVars, poolVars, flagVars, memoryVars
<1>0. ASSUME UNCHANGED memoryVars PROVE MemoryInv'
  BY <1>0 DEF MemoryInv, Accounts, Written, Distinct
<1>1. CASE Start
  <2>1. CASE StartNetwork
    <3>1. created \in Chain /\ receiving[created] = <<>>
      BY <2>1, ConstantsAssumption DEF StartNetwork, TypeOK, ChainInv, Chain
    <3> QED
      BY <2>1, <3>1, ArmMemory DEF StartNetwork
  <2>2. CASE StartDatabase
    BY <1>0, <2>2 DEF StartDatabase
  <2>3. CASE PushMainLoop
    BY <1>0, <2>3 DEF PushMainLoop
  <2>4. CASE StartCore
    BY <1>0, <2>4 DEF StartCore
  <2>5. CASE StartJoinCore
    BY <1>0, <2>5 DEF StartJoinCore
  <2>6. CASE StartJoinDatabase
    BY <1>0, <2>6 DEF StartJoinDatabase
  <2>7. CASE StartSignal
    BY <1>0, <2>7 DEF StartSignal
  <2>8. CASE StartReturn
    BY <1>0, <2>8 DEF StartReturn
  <2> QED
    BY <1>1, <2>1, <2>2, <2>3, <2>4, <2>5, <2>6, <2>7, <2>8 DEF Start
<1>2. CASE MainLoop
  <2>1. CASE MainTest
    BY <1>0, <2>1 DEF MainTest
  <2>2. CASE MainIterate
    BY <1>0, <2>2 DEF MainIterate
  <2>3. CASE MainEndCore
    BY <1>0, <2>3 DEF MainEndCore
  <2>4. CASE MainEndDatabase
    BY <1>0, <2>4 DEF MainEndDatabase
  <2>5. CASE MainStopNetwork
    BY <1>0, <2>5 DEF MainStopNetwork
  <2>6. CASE MainJoinNetwork
    BY <1>0, <2>6 DEF MainJoinNetwork
  <2>7. CASE MainDone
    BY <1>0, <2>7 DEF MainDone
  <2> QED
    BY <1>2, <2>1, <2>2, <2>3, <2>4, <2>5, <2>6, <2>7 DEF MainLoop
<1>3. CASE StopCalled
  BY <1>0, <1>3 DEF StopCalled
<1>4. CASE Stop
  <2>1. CASE StopJoinCore
    BY <1>0, <2>1 DEF StopJoinCore
  <2>2. CASE StopJoinDatabase
    BY <1>0, <2>2 DEF StopJoinDatabase
  <2>3. CASE StopSignal
    BY <1>0, <2>3 DEF StopSignal
  <2>4. CASE StopReturn
    BY <1>0, <2>4 DEF StopReturn
  <2> QED
    BY <1>4, <2>1, <2>2, <2>3, <2>4 DEF Stop
<1>5. ASSUME NEW t \in Chain, NEW i \in Chain, PacketReceived(t, i)
      PROVE  MemoryInv'
  <2>1. /\ receiving[i] # <<>>
        /\ receiving' = [receiving EXCEPT ![i] = <<>>]
        /\ buffers' = Hand(buffers, receiving[i][1])
        /\ endpoints' = Hand(endpoints, receiving[i][2])
    BY <1>5 DEF PacketReceived, Completes
  <2>2. buffers \in Pool /\ endpoints \in Pool
    BY DEF TypeOK
  <2>3. /\ receiving[i][1] \in Written(1)
        /\ receiving[i][2] \in Written(2)
        /\ Distinct(1)' /\ Written(1)' = Written(1) \ {receiving[i][1]}
        /\ Distinct(2)' /\ Written(2)' = Written(2) \ {receiving[i][2]}
    BY <2>1, CompleteWrites DEF MemoryInv
  <2>4. /\ Accounts(buffers', Written(1) \ {receiving[i][1]})
        /\ Accounts(endpoints', Written(2) \ {receiving[i][2]})
    BY <2>1, <2>2, <2>3, DoneAccounts DEF MemoryInv
  <2> QED
    BY <2>3, <2>4 DEF MemoryInv, Accounts
<1>6. ASSUME NEW t \in Chain, NEW i \in Chain, ReceiveFailed(t, i)
      PROVE  MemoryInv'
  <2>1. /\ receiving[i] # <<>>
        /\ receiving' = [receiving EXCEPT ![i] = <<>>]
        /\ buffers' = Release(buffers, receiving[i][1])
        /\ endpoints' = Release(endpoints, receiving[i][2])
    BY <1>6 DEF ReceiveFailed, Completes
  <2>2. buffers \in Pool /\ endpoints \in Pool
    BY DEF TypeOK
  <2>3. /\ receiving[i][1] \in Written(1)
        /\ receiving[i][2] \in Written(2)
        /\ Distinct(1)' /\ Written(1)' = Written(1) \ {receiving[i][1]}
        /\ Distinct(2)' /\ Written(2)' = Written(2) \ {receiving[i][2]}
    BY <2>1, CompleteWrites DEF MemoryInv
  <2>4. /\ Accounts(buffers', Written(1) \ {receiving[i][1]})
        /\ Accounts(endpoints', Written(2) \ {receiving[i][2]})
    BY <2>1, <2>2, <2>3, DoneAccounts DEF MemoryInv
  <2> QED
    BY <2>3, <2>4 DEF MemoryInv, Accounts
<1>7. ASSUME NEW t \in Chain, HandleAgain(t)
      PROVE  MemoryInv'
  <2>1. thread[t] \in Chain /\ receiving[thread[t]] = <<>>
    BY <1>7 DEF HandleAgain, ChainInv
  <2> QED
    BY <1>7, <2>1, ArmMemory DEF HandleAgain
<1>8. ASSUME NEW t \in Chain, RunReturns(t)
      PROVE  MemoryInv'
  BY <1>0, <1>8 DEF RunReturns
<1>9. ASSUME NEW m \in Memory, ReleaseNetworkBuffer(m)
      PROVE  MemoryInv'
  <2>1. /\ m \in buffers.held
        /\ buffers' = Release(buffers, m)
        /\ UNCHANGED <<receiving, endpoints>>
    BY <1>9 DEF ReleaseNetworkBuffer
  <2>2. Accounts(buffers', Written(1))
    BY <2>1, ReleaseAccounts DEF MemoryInv, TypeOK
  <2> QED
    BY <2>1, <2>2 DEF MemoryInv, Accounts, Written, Distinct
<1>10. ASSUME NEW m \in Memory, ReleaseNetworkEndpoint(m)
      PROVE  MemoryInv'
  <2>1. /\ m \in endpoints.held
        /\ endpoints' = Release(endpoints, m)
        /\ UNCHANGED <<receiving, buffers>>
    BY <1>10 DEF ReleaseNetworkEndpoint
  <2>2. Accounts(endpoints', Written(2))
    BY <2>1, ReleaseAccounts DEF MemoryInv, TypeOK
  <2> QED
    BY <2>1, <2>2 DEF MemoryInv, Accounts, Written, Distinct
<1>11. CASE UNCHANGED vars
  BY <1>0, <1>11 DEF vars
<1> QED
  BY <1>1, <1>2, <1>3, <1>4, <1>5, <1>6, <1>7, <1>8, <1>9, <1>10, <1>11
     DEF Next, Receive

\* A buffer or an endpoint has one user at a time: two receives never write
\* into the same object, and none writes into one that is free or in use.
THEOREM MemoryAlwaysOwned == Spec => []MemoryIsOwned
<1>1. MemoryInv => MemoryIsOwned
  BY DEF MemoryInv, MemoryIsOwned, Accounts, Distinct
<1>2. Spec => []MemoryInv
  BY InitType, NextType, InitChain, NextChain, InitMemory, NextMemory, PTL
     DEF Spec, TypeInv
<1> QED
  BY <1>1, <1>2, PTL

\* Every object that was ever allocated is free, received into, or with the
\* plugins.
THEOREM NothingEverLeaks == Spec => []NothingLeaks
<1>1. MemoryInv => NothingLeaks
  BY DEF MemoryInv, NothingLeaks, Accounts
<1>2. Spec => []MemoryInv
  BY InitType, NextType, InitChain, NextChain, InitMemory, NextMemory, PTL
     DEF Spec, TypeInv
<1> QED
  BY <1>1, <1>2, PTL

----------------------------------------------------------------------------
(***************************************************************************)
(* The order of the end: StopMeansStopped.                                 *)
(***************************************************************************)

\* What the main loop has done, by its place.
EndInOrder ==
    /\ starter \in {"network", "database", "running"} => main = "none"
    /\ starter = "push" => main = "test"
    /\ starter \in {"network", "database", "running", "push"} => core_pool = "new"
    /\ main \in {"end_database", "stop_network", "join_network", "done"} =>
          core_pool = "ended"
    /\ main \in {"stop_network", "join_network", "done"} => database_pool = "ended"

\* The network threads that were joined have left io_context::run().
JoinedExited ==
    /\ main \notin {"join_network", "done"} => joined = 0
    /\ main = "done" => joined = NetworkThreads
    /\ \A t \in Chain : t < joined => thread[t] = Exited

\* A caller that went past a join found its pool down; one that comes back from
\* the barrier met the other there.
WaitersPast ==
    /\ starter \in {"join_database", "signal", "barrier"} => CoreJoined
    /\ starter \in {"signal", "barrier"} => DatabaseJoined
    /\ starter = "returned" /\ join_pools => CoreJoined /\ DatabaseJoined
    /\ stopper = "join_database" => CoreJoined
    /\ stopper = "returned" => CoreJoined /\ DatabaseJoined

EndInv == EndInOrder /\ JoinedExited /\ WaitersPast

\* Nothing has ended in the initial state.
LEMMA InitEnd == Init => EndInv
BY ConstantsAssumption DEF Init, EndInv, EndInOrder, JoinedExited, WaitersPast,
      CoreJoined, DatabaseJoined, Chain

\* Every step keeps the order of the end.
LEMMA NextEnd == TypeInv /\ EndInv /\ [Next]_vars => EndInv'
<1> SUFFICES ASSUME TypeInv /\ EndInv, [Next]_vars PROVE EndInv'
  OBVIOUS
<1> USE ConstantsAssumption DEF TypeInv, TypeOK, BarrierUse, StarterArrived,
        StopperArrived, EndInv, EndInOrder, JoinedExited, WaitersPast, CoreJoined, DatabaseJoined,
        startVars, poolVars, flagVars, memoryVars
<1>1. CASE Start
  <2>1. CASE StartNetwork
    BY <2>1 DEF StartNetwork
  <2>2. CASE StartDatabase
    BY <2>2 DEF StartDatabase
  <2>3. CASE PushMainLoop
    BY <2>3 DEF PushMainLoop
  <2>4. CASE StartCore
    BY <2>4 DEF StartCore
  <2>5. CASE StartJoinCore
    BY <2>5 DEF StartJoinCore
  <2>6. CASE StartJoinDatabase
    BY <2>6 DEF StartJoinDatabase
  <2>7. CASE StartSignal
    BY <2>7 DEF StartSignal
  <2>8. CASE StartReturn
    BY <2>8 DEF StartReturn
  <2> QED
    BY <1>1, <2>1, <2>2, <2>3, <2>4, <2>5, <2>6, <2>7, <2>8 DEF Start
<1>2. CASE MainLoop
  <2>1. CASE MainTest
    BY <2>1 DEF MainTest
  <2>2. CASE MainIterate
    BY <2>2 DEF MainIterate
  <2>3. CASE MainEndCore
    BY <2>3 DEF MainEndCore
  <2>4. CASE MainEndDatabase
    BY <2>4 DEF MainEndDatabase
  <2>5. CASE MainStopNetwork
    BY <2>5 DEF MainStopNetwork
  <2>6. CASE MainJoinNetwork
    BY <2>6 DEF MainJoinNetwork
  <2>7. CASE MainDone
    BY <2>7 DEF MainDone
  <2> QED
    BY <1>2, <2>1, <2>2, <2>3, <2>4, <2>5, <2>6, <2>7 DEF MainLoop
<1>3. CASE StopCalled
  BY <1>3 DEF StopCalled
<1>4. CASE Stop
  <2>1. CASE StopJoinCore
    BY <2>1 DEF StopJoinCore
  <2>2. CASE StopJoinDatabase
    BY <2>2 DEF StopJoinDatabase
  <2>3. CASE StopSignal
    BY <2>3 DEF StopSignal
  <2>4. CASE StopReturn
    BY <2>4 DEF StopReturn
  <2> QED
    BY <1>4, <2>1, <2>2, <2>3, <2>4 DEF Stop
<1>5. ASSUME NEW t \in Chain, NEW i \in Chain, PacketReceived(t, i)
      PROVE  EndInv'
  <2>1. \A u \in Chain : thread[u] = Exited => thread'[u] = Exited
    BY <1>5 DEF PacketReceived, Completes, Idle, Exited
  <2> QED
    BY <1>5, <2>1 DEF PacketReceived
<1>6. ASSUME NEW t \in Chain, NEW i \in Chain, ReceiveFailed(t, i)
      PROVE  EndInv'
  <2>1. \A u \in Chain : thread[u] = Exited => thread'[u] = Exited
    BY <1>6 DEF ReceiveFailed, Completes, Idle, Exited
  <2> QED
    BY <1>6, <2>1 DEF ReceiveFailed
<1>7. ASSUME NEW t \in Chain, HandleAgain(t)
      PROVE  EndInv'
  <2>1. \A u \in Chain : thread[u] = Exited => thread'[u] = Exited
    BY <1>7 DEF HandleAgain, Exited, Chain
  <2> QED
    BY <1>7, <2>1 DEF HandleAgain
<1>8. ASSUME NEW t \in Chain, RunReturns(t)
      PROVE  EndInv'
  BY <1>8 DEF RunReturns
<1>9. ASSUME NEW m \in Memory, ReleaseNetworkBuffer(m)
      PROVE  EndInv'
  BY <1>9 DEF ReleaseNetworkBuffer
<1>10. ASSUME NEW m \in Memory, ReleaseNetworkEndpoint(m)
      PROVE  EndInv'
  BY <1>10 DEF ReleaseNetworkEndpoint
<1>11. CASE UNCHANGED vars
  BY <1>11 DEF vars
<1> QED
  BY <1>1, <1>2, <1>3, <1>4, <1>5, <1>6, <1>7, <1>8, <1>9, <1>10, <1>11
     DEF Next, Receive

\* When stop() returns, and when a start() that joins the pools returns, the
\* main loop is over, the pools are down and every network thread was joined.
THEOREM StopAlwaysMeansStopped == Spec => []StopMeansStopped
<1>1. TypeOK /\ EndInv => StopMeansStopped
  BY ConstantsAssumption DEF TypeOK, EndInv, EndInOrder, JoinedExited,
        WaitersPast, CoreJoined, StopMeansStopped, Chain
<1>2. Spec => [](TypeInv /\ EndInv)
  BY InitType, NextType, InitEnd, NextEnd, PTL DEF Spec
<1> QED
  BY <1>1, <1>2, PTL DEF TypeInv

----------------------------------------------------------------------------
(***************************************************************************)
(* CoreLoop implements Lifecycle: the safety of ImplementsLifecycle.       *)
(***************************************************************************)

\* Once start() has pushed the main loop, it is there, and runs until it is asked
\* to stop.
AskedToStop ==
    starter \notin {"network", "database", "running"} =>
        /\ main # "none"
        /\ running <=> stopper = "idle"

\* No step but stop() takes _running back.
LEMMA NextAsked == TypeInv /\ EndInv /\ AskedToStop /\ [Next]_vars => AskedToStop'
<1> SUFFICES ASSUME TypeInv, EndInv, AskedToStop, [Next]_vars PROVE AskedToStop'
  OBVIOUS
<1> USE DEF AskedToStop, startVars, poolVars, flagVars, memoryVars
<1>1. CASE Start
  <2>1. stopper # "idle" => starter \notin {"network", "database", "running"}
    BY DEF TypeInv, BarrierUse
  <2> QED
    BY <1>1, <2>1 DEF Start, StartNetwork, StartDatabase, PushMainLoop, StartCore,
       StartJoinCore, StartJoinDatabase, StartSignal, StartReturn
<1>2. CASE MainLoop
  BY <1>2 DEF MainLoop, MainTest, MainIterate, MainEndCore, MainEndDatabase,
     MainStopNetwork, MainJoinNetwork, MainDone
<1>3. CASE StopCalled
  <2>1. running' = FALSE /\ stopper' # "idle" /\ UNCHANGED <<starter, main>>
    BY <1>3 DEF StopCalled
  <2> QED
    BY <2>1
<1>4. CASE Stop
  BY <1>4 DEF Stop, StopJoinCore, StopJoinDatabase, StopSignal, StopReturn
<1>5. ASSUME UNCHANGED <<starter, main, running, stopper>>
      PROVE  AskedToStop'
  BY <1>5
<1>6. ASSUME NEW t \in Chain, Receive(t) \/ HandleAgain(t) \/ RunReturns(t)
      PROVE  AskedToStop'
  BY <1>5, <1>6 DEF Receive, PacketReceived, ReceiveFailed, HandleAgain, RunReturns
<1>7. ASSUME NEW m \in Memory, ReleaseNetworkBuffer(m) \/ ReleaseNetworkEndpoint(m)
      PROVE  AskedToStop'
  BY <1>5, <1>7 DEF ReleaseNetworkBuffer, ReleaseNetworkEndpoint
<1>8. CASE UNCHANGED vars
  BY <1>5, <1>8 DEF vars
<1> QED
  BY <1>1, <1>2, <1>3, <1>4, <1>6, <1>7, <1>8 DEF Next

\* The phase of the server is the place of its main loop.
PhaseByMain ==
    /\ main = "none" <=> Phase = "down"
    /\ main \in {"test", "iterate"} <=> Phase = "up"
    /\ main \in {"end_core", "end_database", "stop_network", "join_network"}
          <=> Phase = "ending"
    /\ main = "done" <=> Phase = "over"

\* The main loop's fiber is done when everything is down, not before.
LEMMA PhaseOfMain == TypeInv /\ EndInv => PhaseByMain
<1> SUFFICES ASSUME TypeInv, EndInv PROVE PhaseByMain
  OBVIOUS
<1>1. main \in {"none", "test", "iterate", "end_core", "end_database",
                "stop_network", "join_network", "done"}
  BY DEF TypeInv, TypeOK
<1>2. Down <=> main = "done"
  BY DEF Down, CoreJoined, DatabaseJoined, EndInv, EndInOrder, JoinedExited
<1>3. CASE main = "none"
  BY <1>2, <1>3 DEF Phase, PhaseByMain
<1>4. CASE main \in {"test", "iterate"}
  BY <1>2, <1>4 DEF Phase, PhaseByMain
<1>5. CASE main \in {"end_core", "end_database", "stop_network", "join_network"}
  BY <1>2, <1>5 DEF Phase, PhaseByMain
<1>6. CASE main = "done"
  BY <1>2, <1>6 DEF Phase, PhaseByMain
<1> QED
  BY <1>1, <1>3, <1>4, <1>5, <1>6

\* The initial state maps to that of Lifecycle.
LEMMA InitImplements == Init => Abstract!Init
<1> SUFFICES ASSUME Init PROVE Abstract!Init
  OBVIOUS
<1>1. PhaseByMain
  BY InitType, InitEnd, PhaseOfMain
<1> QED
  BY <1>1 DEF Init, Abstract!Init, PhaseByMain

\* Those who wait for the end are answered when both have returned.
Answered == stopper = "returned" /\ starter = "returned"

\* Every step of the core loop is a step of Lifecycle, or changes nothing there.
LEMMA NextImplements ==
    /\ TypeInv /\ EndInv /\ MemoryInv /\ AskedToStop
    /\ TypeInv' /\ EndInv' /\ AskedToStop'
    /\ [Next]_vars
    => [Abstract!Next]_Abstract!vars
<1> SUFFICES ASSUME TypeInv, EndInv, MemoryInv, AskedToStop,
                    TypeInv', EndInv', AskedToStop', [Next]_vars
             PROVE  Abstract!Next \/ UNCHANGED Abstract!vars
  OBVIOUS
<1>0. PhaseByMain /\ PhaseByMain'
  BY PhaseOfMain, PTL
<1> USE DEF startVars, poolVars, flagVars, memoryVars
<1>q. ASSUME UNCHANGED <<main, stopper, starter>>, buffers'.held = buffers.held
      PROVE  UNCHANGED Abstract!vars
  <2>1. Phase' = Phase
    BY <1>0, <1>q DEF PhaseByMain, Phase, Down, CoreJoined, DatabaseJoined
  <2> QED
    BY <1>q, <2>1 DEF Abstract!vars
<1>a. ASSUME UNCHANGED <<main, buffers>>, stopper # "idle" <=> stopper' # "idle",
             Answered => Answered',
             Answered' => main = "done"
      PROVE  Abstract!Next \/ UNCHANGED Abstract!vars
  <2>1. Phase' = Phase
    BY <1>0, <1>a DEF PhaseByMain, Phase
  <2>2. CASE Answered' /\ ~Answered
    <3>1. Phase = "over"
      BY <1>0, <1>a, <2>2 DEF PhaseByMain
    <3>2. Abstract!Answer
      BY <1>a, <2>1, <2>2, <3>1 DEF Abstract!Answer, Answered
    <3> QED
      BY <3>2 DEF Abstract!Next
  <2>3. CASE Answered' <=> Answered
    BY <1>a, <2>1, <2>3 DEF Abstract!vars, Answered
  <2> QED
    BY <1>a, <2>2, <2>3
<1>1. CASE Start
  <2>1. CASE StartNetwork
    <3>1. buffers'.held = buffers.held
      BY <2>1 DEF StartNetwork, HandleConnections, Get, TypeInv, TypeOK, Pool
    <3> QED
      BY <1>q, <2>1, <3>1 DEF StartNetwork
  <2>2. CASE StartDatabase
    BY <1>a, <2>2 DEF StartDatabase, Answered
  <2>3. CASE PushMainLoop
    <3>1. main = "none" /\ main' = "test" /\ stopper = "idle"
      BY <2>3 DEF PushMainLoop, EndInv, EndInOrder, TypeInv, BarrierUse
    <3>2. Phase = "down" /\ Phase' = "up"
      BY <1>0, <3>1 DEF PhaseByMain
    <3>3. Abstract!Boot
      BY <2>3, <3>1, <3>2 DEF PushMainLoop, Abstract!Boot
    <3> QED
      BY <3>3 DEF Abstract!Next
  <2>4. CASE StartCore
    <3>1. stopper # "returned"
      BY <2>4 DEF StartCore, EndInv, EndInOrder, WaitersPast, CoreJoined
    <3> QED
      BY <1>a, <2>4, <3>1 DEF StartCore, Answered
  <2>5. CASE StartJoinCore \/ StartJoinDatabase \/ StartSignal
    BY <1>a, <2>5 DEF StartJoinCore, StartJoinDatabase, StartSignal, Answered
  <2>6. CASE StartReturn
    <3>1. main = "done"
      BY <2>6 DEF StartReturn, EndInv, WaitersPast, CoreJoined
    <3> QED
      BY <1>a, <2>6, <3>1 DEF StartReturn, Answered
  <2> QED
    BY <1>1, <2>1, <2>2, <2>3, <2>4, <2>5, <2>6 DEF Start
<1>2. CASE MainLoop
  <2>1. UNCHANGED <<stopper, starter, buffers>>
    BY <1>2 DEF MainLoop, MainTest, MainIterate, MainEndCore, MainEndDatabase,
       MainStopNetwork, MainJoinNetwork, MainDone
  <2>2. ASSUME Phase' = Phase PROVE UNCHANGED Abstract!vars
    BY <2>1, <2>2 DEF Abstract!vars
  <2>3. CASE MainTest
    <3>1. CASE running
      <4>1. Phase = "up" /\ Phase' = "up"
        BY <1>0, <2>3, <3>1 DEF MainTest, PhaseByMain
      <4> QED
        BY <2>2, <4>1
    <3>2. CASE ~running
      <4>1. main = "test" /\ main' = "end_core"
        BY <2>3, <3>2 DEF MainTest
      <4>2. stopper # "idle"
        BY <3>2, <4>1 DEF AskedToStop, EndInv, EndInOrder
      <4>3. Phase = "up" /\ Phase' = "ending"
        BY <1>0, <4>1 DEF PhaseByMain
      <4>4. Abstract!End
        BY <2>1, <4>2, <4>3 DEF Abstract!End
      <4> QED
        BY <4>4 DEF Abstract!Next
    <3> QED
      BY <3>1, <3>2
  <2>4. CASE MainIterate
    <3>1. Phase = "up" /\ Phase' = "up"
      BY <1>0, <2>4 DEF MainIterate, PhaseByMain
    <3> QED
      BY <2>2, <3>1
  <2>5. CASE MainEndCore \/ MainEndDatabase \/ MainStopNetwork \/ MainJoinNetwork
    <3>1. Phase = "ending" /\ Phase' = "ending"
      BY <1>0, <2>5 DEF MainEndCore, MainEndDatabase, MainStopNetwork,
         MainJoinNetwork, PhaseByMain
    <3> QED
      BY <2>2, <3>1
  <2>6. CASE MainDone
    <3>1. Phase = "ending" /\ Phase' = "over"
      BY <1>0, <2>6 DEF MainDone, PhaseByMain
    <3>2. Abstract!Finish
      BY <2>1, <3>1 DEF Abstract!Finish
    <3> QED
      BY <3>2 DEF Abstract!Next
  <2> QED
    BY <1>2, <2>3, <2>4, <2>5, <2>6 DEF MainLoop
<1>3. CASE StopCalled
  <2>1. /\ stopper = "idle" /\ stopper' \in {"join_core", "signal"}
        /\ UNCHANGED <<starter, main, buffers>>
        /\ starter \in {"push", "join_core", "returned"}
    BY <1>3 DEF StopCalled
  <2>2. Phase # "down" /\ Phase' = Phase
    <3>1. main # "none"
      BY <2>1 DEF AskedToStop
    <3> QED
      BY <1>0, <2>1, <3>1 DEF PhaseByMain, Phase
  <2>3. Abstract!Ask
    BY <2>1, <2>2 DEF Abstract!Ask
  <2> QED
    BY <2>3 DEF Abstract!Next
<1>4. CASE Stop
  <2>1. CASE StopJoinCore \/ StopSignal
    BY <1>a, <2>1 DEF StopJoinCore, StopSignal, Answered
  <2>2. CASE StopJoinDatabase
    <3>1. main = "done"
      BY <2>2 DEF StopJoinDatabase, EndInv, WaitersPast, CoreJoined
    <3> QED
      BY <1>a, <2>2, <3>1 DEF StopJoinDatabase, Answered
  <2>3. CASE StopReturn
    <3>1. stopper' = "returned" /\ UNCHANGED <<main, starter, buffers>>
      BY <2>3 DEF StopReturn
    <3>2. main = "done"
      BY <3>1 DEF EndInv, WaitersPast, CoreJoined
    <3> QED
      BY <1>a, <2>3, <3>2 DEF StopReturn, Answered
  <2> QED
    BY <1>4, <2>1, <2>2, <2>3 DEF Stop
<1>5. ASSUME NEW t \in Chain, NEW i \in Chain, PacketReceived(t, i)
      PROVE  Abstract!Next
  <2>1. /\ receiving[i] \in Memory \X Memory
        /\ thread[t] = Idle
        /\ buffers' = Hand(buffers, receiving[i][1])
        /\ UNCHANGED <<main, starter, stopper>>
    BY <1>5 DEF PacketReceived, Completes, TypeInv, TypeOK
  <2>2. receiving[i][1] \in Memory /\ receiving[i][1] \notin buffers.held
    <3>1. receiving[i] # <<>>
      BY <1>5 DEF PacketReceived, Completes
    <3>2. receiving[i][1] \in Written(1)
      BY <3>1 DEF Written
    <3> QED
      BY <2>1, <3>2 DEF MemoryInv, Accounts
  <2>3. buffers'.held = buffers.held \cup {receiving[i][1]}
    BY <2>1 DEF Hand, TypeInv, TypeOK, Pool
  <2>4. Phase # "over"
    <3>1. t \in Int /\ t < NetworkThreads
      BY ConstantsAssumption DEF Chain
    <3>2. main # "done"
      BY <2>1, <3>1 DEF EndInv, JoinedExited, Idle, Exited
    <3> QED
      BY <1>0, <3>2 DEF PhaseByMain
  <2>5. Phase' = Phase
    BY <1>0, <2>1 DEF PhaseByMain, Phase
  <2>6. PICK b \in Memory : b = receiving[i][1]
    BY <2>2
  <2>7. Abstract!Hand(b)
    BY <2>1, <2>2, <2>3, <2>4, <2>5, <2>6 DEF Abstract!Hand
  <2> QED
    BY <2>7 DEF Abstract!Next
<1>6. ASSUME NEW t \in Chain, NEW i \in Chain, ReceiveFailed(t, i)
      PROVE  UNCHANGED Abstract!vars
  <2>1. receiving[i] # <<>> /\ buffers' = Release(buffers, receiving[i][1])
    BY <1>6 DEF ReceiveFailed, Completes
  <2>2. receiving[i][1] \in Written(1)
    BY <2>1 DEF Written
  <2>3. receiving[i][1] \notin buffers.held
    BY <2>2 DEF MemoryInv, Accounts
  <2>4. buffers'.held = buffers.held
    BY <2>1, <2>3 DEF Release, TypeInv, TypeOK, Pool
  <2> QED
    BY <1>6, <1>q, <2>4 DEF ReceiveFailed
<1>7. ASSUME NEW t \in Chain, HandleAgain(t)
      PROVE  UNCHANGED Abstract!vars
  <2>1. buffers'.held = buffers.held
    BY <1>7 DEF HandleAgain, HandleConnections, Get, TypeInv, TypeOK, Pool
  <2> QED
    BY <1>7, <1>q, <2>1 DEF HandleAgain
<1>8. ASSUME NEW t \in Chain, RunReturns(t)
      PROVE  UNCHANGED Abstract!vars
  BY <1>8, <1>q DEF RunReturns
<1>9. ASSUME NEW m \in Memory, ReleaseNetworkBuffer(m)
      PROVE  Abstract!Next
  <2>1. /\ m \in buffers.held
        /\ buffers'.held = buffers.held \ {m}
        /\ UNCHANGED <<main, starter, stopper>>
    BY <1>9 DEF ReleaseNetworkBuffer, Release, TypeInv, TypeOK, Pool
  <2>2. Phase' = Phase
    BY <1>0, <2>1 DEF PhaseByMain, Phase
  <2>3. Abstract!Return(m)
    BY <2>1, <2>2 DEF Abstract!Return
  <2> QED
    BY <2>3 DEF Abstract!Next
<1>10. ASSUME NEW m \in Memory, ReleaseNetworkEndpoint(m)
      PROVE  UNCHANGED Abstract!vars
  BY <1>10, <1>q DEF ReleaseNetworkEndpoint
<1>11. CASE UNCHANGED vars
  BY <1>11, <1>q DEF vars
<1> QED
  BY <1>1, <1>2, <1>3, <1>4, <1>5, <1>6, <1>7, <1>8, <1>9, <1>10, <1>11
     DEF Next, Receive

\* The core loop keeps the safety of what Lifecycle promises, for any number of
\* network threads and objects: it comes up once, ends only after it was asked to,
\* hands the plugins no packet once it is down and no buffer they already have,
\* and lets nobody who waits for the end return before it.
THEOREM CoreLoopImplementsLifecycle == Spec => Abstract!Spec
<1>1. Init => AskedToStop
  BY DEF Init, AskedToStop
<1>2. Spec => [](TypeInv /\ EndInv /\ MemoryInv /\ AskedToStop)
  BY <1>1, InitType, NextType, InitEnd, NextEnd, InitChain, NextChain, InitMemory,
     NextMemory, NextAsked, PTL DEF Spec, TypeInv
<1> QED
  BY <1>2, InitImplements, NextImplements, PTL DEF Spec, Abstract!Spec

=============================================================================
