---------------------------- MODULE DatabaseProofs ----------------------------
(***************************************************************************)
(* Proofs about Database, for any requests, ids, threads and outages.      *)
(***************************************************************************)
EXTENDS Database, FiniteSetTheorems, TLAPS

----------------------------------------------------------------------------
(***************************************************************************)
(* Type correctness, and what the queue holds.                             *)
(***************************************************************************)

\* A thread takes what waits, and each request waits once: otherwise one that is
\* with a thread already would be started again.
QueueInv ==
    /\ \A k \in 1 .. Len(queue) : stage[queue[k]] = "queued"
    /\ \A j, k \in 1 .. Len(queue) : queue[j] = queue[k] => j = k

\* A request that is past its draw has an id.
IdDrawn ==
    \A r \in Request :
        stage[r] \in {"insert", "answer", "created", "done"} => id[r] \in Id

TypeInv == TypeOK /\ QueueInv /\ IdDrawn

\* The variables have their types in the initial state.
LEMMA InitType == Init => TypeInv
BY ConstantsAssumption
   DEF Init, TypeInv, TypeOK, QueueInv, IdDrawn, Active, NoId

\* Every step keeps them.
LEMMA NextType == TypeInv /\ [Next]_vars => TypeInv'
<1> SUFFICES ASSUME TypeInv, [Next]_vars PROVE TypeInv'
  OBVIOUS
<1> USE ConstantsAssumption
    DEF TypeInv, TypeOK, QueueInv, IdDrawn, Active, NoId, callVars, requestVars,
        serverVars
<1>1. CASE Start
  <2>1. /\ Head(queue) \in Request /\ Tail(queue) \in Seq(Request)
        /\ Len(Tail(queue)) = Len(queue) - 1
        /\ \A k \in 1 .. Len(Tail(queue)) : Tail(queue)[k] = queue[k + 1]
        /\ Head(queue) = queue[1] /\ Len(queue) \in Nat \ {0}
    BY <1>1 DEF Start
  <2> QED
    BY <1>1, <2>1 DEF Start
<1>2. ASSUME NEW r \in Request, EnsureCreation(r)
      PROVE  TypeInv'
  <2>1. CASE connected
    <3>1. /\ queue' = Append(queue, r) /\ queue' \in Seq(Request)
          /\ Len(queue') = Len(queue) + 1 /\ Len(queue) \in Nat
          /\ \A k \in 1 .. Len(queue') :
                queue'[k] = IF k <= Len(queue) THEN queue[k] ELSE r
      BY <1>2, <2>1 DEF EnsureCreation
    <3>2. /\ stage[r] = "none"
          /\ stage' = [stage EXCEPT ![r] = "queued"]
          /\ copied' \subseteq ByReference
          /\ UNCHANGED <<connected, id, destroyed, told, serverVars>>
      BY <1>2, <2>1 DEF EnsureCreation
    <3>3. QueueInv'
      BY <3>1, <3>2
    <3> QED
      BY <3>1, <3>2, <3>3
  <2>2. CASE ~connected
    <3>1. /\ stage[r] = "none"
          /\ stage' = [stage EXCEPT ![r] = "dropped"]
          /\ queue' = queue
          /\ copied' \subseteq ByReference
          /\ UNCHANGED <<connected, id, destroyed, told, serverVars>>
      BY <1>2, <2>2 DEF EnsureCreation
    <3> QED
      BY <3>1
  <2>3. connected \in BOOLEAN
    OBVIOUS
  <2> QED
    BY <2>1, <2>2, <2>3
<1>3. ASSUME NEW r \in Request, NEW i \in Id, Draw(r, i)
      PROVE  TypeInv'
  BY <1>3 DEF Draw
<1>4. ASSUME NEW r \in Request, Execute(r)
      PROVE  TypeInv'
  <2>1. CASE InsertFails(r)
    BY <2>1 DEF InsertFails
  <2>2. CASE Insert(r)
    BY <2>2 DEF Insert
  <2>3. CASE AnswerLost(r)
    BY <2>3 DEF AnswerLost
  <2>4. CASE Created(r)
    BY <2>4 DEF Created
  <2>5. CASE Callback(r)
    BY <2>5 DEF Callback
  <2> QED
    BY <1>4, <2>1, <2>2, <2>3, <2>4, <2>5 DEF Execute
<1>5. CASE Break
  <2>1. outages < MaxOutages /\ outages' = outages + 1 /\ reachable' = FALSE
    BY <1>5 DEF Break
  <2>2. UNCHANGED <<connected, queue, stage, id, copied, destroyed, told, server,
                    unanswered>>
    BY <1>5 DEF Break
  <2>3. outages' \in 0 .. MaxOutages
    BY <2>1
  <2>4. reachable' \in BOOLEAN
    BY <2>1
  <2> QED
    BY <2>2, <2>3, <2>4
<1>6. CASE Mend
  BY <1>6 DEF Mend
<1>7. CASE UNCHANGED vars
  BY <1>7 DEF vars
<1> QED
  BY <1>1, <1>2, <1>3, <1>4, <1>5, <1>6, <1>7 DEF Next

\* Every variable of the model has its type in every state, for any requests, ids
\* and threads.
THEOREM TypeCorrect == Spec => []TypeOK
<1>1. Init => TypeInv
  BY InitType
<1>2. TypeInv /\ [Next]_vars => TypeInv'
  BY NextType
<1>3. TypeInv => TypeOK
  BY DEF TypeInv
<1> QED
  BY <1>1, <1>2, <1>3, PTL DEF Spec

----------------------------------------------------------------------------
(***************************************************************************)
(* The documents of the collection.                                        *)
(***************************************************************************)

\* The ids of the documents a request has inserted.
Documents(r) == {i \in Id : server[i] = r}

\* The insert of r's last round succeeded, whether or not r knows yet.
LastInserted(r) == stage[r] \in {"answer", "created", "done"}

\* What ToldIdNamesDocument needs: a request that has inserted still holds the id
\* its document has, until its callback got it.
IdNamesDocument ==
    /\ \A r \in Request : LastInserted(r) => server[id[r]] = r
    /\ ToldIdNamesDocument

\* What DocumentsCounted needs: Cardinality says something of finite sets only.
Counted ==
    \A r \in Request :
        /\ IsFiniteSet(Documents(r))
        /\ Cardinality(Documents(r)) =
              unanswered[r] + (IF LastInserted(r) THEN 1 ELSE 0)

\* No request is a document of the collection in the initial state.
LEMMA InitDocuments == Init => IdNamesDocument /\ Counted
<1> SUFFICES ASSUME Init PROVE IdNamesDocument /\ Counted
  OBVIOUS
<1> USE ConstantsAssumption
<1>1. IdNamesDocument
  BY DEF Init, IdNamesDocument, LastInserted, ToldIdNamesDocument
<1>2. ASSUME NEW r \in Request
      PROVE  Documents(r) = {}
  BY DEF Init, Documents
<1>3. ASSUME NEW r \in Request
      PROVE  ~LastInserted(r) /\ unanswered[r] = 0
  BY DEF Init, LastInserted
<1>4. IsFiniteSet({}) /\ Cardinality({}) = 0
  BY FS_EmptySet
<1>5. Counted
  BY <1>2, <1>3, <1>4 DEF Counted
<1> QED
  BY <1>1, <1>5

\* An insert into a free id adds the one document, and takes nobody's.
LEMMA InsertAddsDocument ==
    ASSUME TypeInv, NEW r \in Request, Insert(r)
    PROVE  /\ id[r] \in Id /\ server[id[r]] = "free"
           /\ server' = [server EXCEPT ![id[r]] = r]
           /\ Documents(r)' = Documents(r) \cup {id[r]}
           /\ id[r] \notin Documents(r)
           /\ \A q \in Request \ {r} : Documents(q)' = Documents(q)
<1> USE ConstantsAssumption
<1>1. id[r] \in Id /\ server[id[r]] = "free"
  BY DEF Insert, Free, TypeInv, IdDrawn
<1>2. server' = [server EXCEPT ![id[r]] = r] /\ server \in [Id -> Request \cup {"free", "older"}]
  BY DEF Insert, TypeInv, TypeOK
<1>3. "free" \notin Request
  OBVIOUS
<1> QED
  BY <1>1, <1>2, <1>3 DEF Documents

\* Every step keeps both.
LEMMA NextDocuments ==
    TypeInv /\ IdNamesDocument /\ Counted /\ [Next]_vars
        => IdNamesDocument' /\ Counted'
<1> SUFFICES ASSUME TypeInv, IdNamesDocument, Counted, [Next]_vars
             PROVE  IdNamesDocument' /\ Counted'
  OBVIOUS
<1>q. ASSUME UNCHANGED <<id, told, server, unanswered>>,
             \A r \in Request : LastInserted(r)' <=> LastInserted(r)
      PROVE  IdNamesDocument' /\ Counted'
  BY <1>q DEF IdNamesDocument, ToldIdNamesDocument, Counted, Documents
<1> USE DEF TypeInv, TypeOK, callVars, requestVars, serverVars
<1>1. CASE Start
  <2>1. Head(queue) \in Request /\ stage[Head(queue)] = "queued"
    BY <1>1 DEF Start, QueueInv
  <2>2. \A r \in Request : LastInserted(r)' <=> LastInserted(r)
    BY <1>1, <2>1 DEF Start, LastInserted
  <2> QED
    BY <1>1, <1>q, <2>2 DEF Start
<1>2. ASSUME NEW r \in Request, EnsureCreation(r)
      PROVE  IdNamesDocument' /\ Counted'
  <2>1. \A q \in Request : LastInserted(q)' <=> LastInserted(q)
    BY <1>2 DEF EnsureCreation, LastInserted
  <2> QED
    BY <1>2, <1>q, <2>1 DEF EnsureCreation
<1>3. ASSUME NEW r \in Request, NEW i \in Id, Draw(r, i)
      PROVE  IdNamesDocument' /\ Counted'
  <2>1. \A q \in Request : LastInserted(q)' <=> LastInserted(q)
    BY <1>3 DEF Draw, LastInserted
  <2>2. IdNamesDocument'
    BY <1>3, <2>1 DEF Draw, IdNamesDocument, ToldIdNamesDocument, LastInserted
  <2>3. Counted'
    BY <1>3, <2>1 DEF Draw, Counted, Documents
  <2> QED
    BY <2>2, <2>3
<1>4. ASSUME NEW r \in Request, InsertFails(r)
      PROVE  IdNamesDocument' /\ Counted'
  <2>1. \A q \in Request : LastInserted(q)' <=> LastInserted(q)
    BY <1>4 DEF InsertFails, LastInserted
  <2> QED
    BY <1>4, <1>q, <2>1 DEF InsertFails
<1>5. ASSUME NEW r \in Request, Insert(r)
      PROVE  IdNamesDocument' /\ Counted'
  <2>1. ~LastInserted(r) /\ LastInserted(r)'
    BY <1>5 DEF Insert, LastInserted
  <2>2. \A q \in Request \ {r} : LastInserted(q)' <=> LastInserted(q)
    BY <1>5 DEF Insert, LastInserted
  <2>3. /\ id[r] \in Id /\ server[id[r]] = "free"
        /\ server' = [server EXCEPT ![id[r]] = r]
        /\ UNCHANGED <<id, told, unanswered>>
    BY <1>5, InsertAddsDocument DEF Insert
  <2>4. \A q \in Request : \A i \in Id : server[i] = q => server'[i] = q
    BY <2>3, ConstantsAssumption
  <2>5. \A q \in Request : LastInserted(q) => id[q] \in Id
    BY DEF LastInserted, IdDrawn
  <2>6. IdNamesDocument'
    <3>1. ASSUME NEW q \in Request, LastInserted(q)'
          PROVE  server'[id'[q]] = q
      <4>1. CASE q = r
        BY <4>1, <2>3
      <4>2. CASE q # r
        <5>1. LastInserted(q)
          BY <3>1, <4>2, <2>2
        <5> QED
          BY <5>1, <2>3, <2>4, <2>5 DEF IdNamesDocument
      <4> QED
        BY <4>1, <4>2
    <3>2. ToldIdNamesDocument'
      BY <2>3, <2>4 DEF IdNamesDocument, ToldIdNamesDocument
    <3> QED
      BY <3>1, <3>2 DEF IdNamesDocument
  <2>7. Counted'
    <3>1. ASSUME NEW q \in Request, q # r
          PROVE  /\ IsFiniteSet(Documents(q))'
                 /\ Cardinality(Documents(q))' =
                       (unanswered[q] + (IF LastInserted(q) THEN 1 ELSE 0))'
      <4>1. Documents(q)' = Documents(q) /\ unanswered'[q] = unanswered[q]
        BY <1>5, <2>3, <3>1, InsertAddsDocument
      <4> QED
        BY <4>1, <2>2, <3>1 DEF Counted
    <3>2. /\ IsFiniteSet(Documents(r))'
          /\ Cardinality(Documents(r))' = Cardinality(Documents(r)) + 1
      <4>1. /\ Documents(r)' = Documents(r) \cup {id[r]}
            /\ id[r] \notin Documents(r) /\ IsFiniteSet(Documents(r))
        BY <1>5, InsertAddsDocument DEF Counted
      <4>2. /\ IsFiniteSet(Documents(r) \cup {id[r]})
            /\ Cardinality(Documents(r) \cup {id[r]}) = Cardinality(Documents(r)) + 1
        BY <4>1, FS_AddElement
      <4> QED
        BY <4>1, <4>2
    <3>3. Cardinality(Documents(r)) = unanswered[r]
      BY <2>1 DEF Counted
    <3>4. Cardinality(Documents(r))' = (unanswered[r] + 1)'
      BY <2>3, <3>2, <3>3
    <3> QED
      BY <2>1, <3>1, <3>2, <3>4 DEF Counted
  <2> QED
    BY <2>6, <2>7
<1>6. ASSUME NEW r \in Request, AnswerLost(r)
      PROVE  IdNamesDocument' /\ Counted'
  <2>1. LastInserted(r) /\ ~LastInserted(r)'
    BY <1>6 DEF AnswerLost, LastInserted
  <2>2. \A q \in Request \ {r} : LastInserted(q)' <=> LastInserted(q)
    BY <1>6 DEF AnswerLost, LastInserted
  <2>3. /\ unanswered' = [unanswered EXCEPT ![r] = @ + 1]
        /\ UNCHANGED <<id, told, server>>
    BY <1>6 DEF AnswerLost
  <2>4. IdNamesDocument'
    BY <2>1, <2>2, <2>3 DEF IdNamesDocument, ToldIdNamesDocument
  <2>5. \A q \in Request : Documents(q)' = Documents(q)
    BY <2>3 DEF Documents
  <2>6. Counted'
    BY <2>1, <2>2, <2>3, <2>5 DEF Counted
  <2> QED
    BY <2>4, <2>6
<1>7. ASSUME NEW r \in Request, Created(r)
      PROVE  IdNamesDocument' /\ Counted'
  <2>1. \A q \in Request : LastInserted(q)' <=> LastInserted(q)
    BY <1>7 DEF Created, LastInserted
  <2> QED
    BY <1>7, <1>q, <2>1 DEF Created
<1>8. ASSUME NEW r \in Request, Callback(r)
      PROVE  IdNamesDocument' /\ Counted'
  <2>1. \A q \in Request : LastInserted(q)' <=> LastInserted(q)
    BY <1>8 DEF Callback, LastInserted
  <2>2. LastInserted(r)
    BY <1>8 DEF Callback, LastInserted
  <2>3. /\ told' = [told EXCEPT ![r] = @ \cup {id[r]}]
        /\ UNCHANGED <<id, server, unanswered>>
    BY <1>8 DEF Callback
  <2>4. IdNamesDocument'
    BY <2>1, <2>2, <2>3 DEF IdNamesDocument, ToldIdNamesDocument
  <2>5. Counted'
    BY <2>1, <2>3 DEF Counted, Documents
  <2> QED
    BY <2>4, <2>5
<1>9. CASE Break \/ Mend \/ UNCHANGED vars
  <2>1. \A r \in Request : LastInserted(r)' <=> LastInserted(r)
    BY <1>9 DEF Break, Mend, vars, LastInserted
  <2> QED
    BY <1>9, <1>q, <2>1 DEF Break, Mend, vars
<1> QED
  BY <1>1, <1>2, <1>3, <1>4, <1>5, <1>6, <1>7, <1>8, <1>9 DEF Next, Execute

\* The invariants of the documents, in every state.
LEMMA DocumentsAlways == Spec => [](IdNamesDocument /\ Counted)
<1>1. Init => TypeInv /\ IdNamesDocument /\ Counted
  BY InitType, InitDocuments
<1>2. TypeInv /\ IdNamesDocument /\ Counted /\ [Next]_vars
        => (TypeInv /\ IdNamesDocument /\ Counted)'
  BY NextType, NextDocuments
<1> QED
  BY <1>1, <1>2, PTL DEF Spec

\* The id the callback of ensure_creation is called with is that of the document
\* of its request, in every state from then on: for any number of requests and
\* threads, any space of ids however full, and any failures of the connection.
THEOREM ToldIdsName == Spec => []ToldIdNamesDocument
<1>1. IdNamesDocument => ToldIdNamesDocument
  BY DEF IdNamesDocument
<1> QED
  BY <1>1, DocumentsAlways, PTL

\* ensure_creation leaves behind one document, and one more for every insert
\* whose answer was lost, whatever else happens.
THEOREM DocumentsAreCounted == Spec => []DocumentsCounted
<1>1. Counted => DocumentsCounted
  BY DEF Counted, DocumentsCounted, Documents, LastInserted
<1> QED
  BY <1>1, DocumentsAlways, PTL

----------------------------------------------------------------------------
(***************************************************************************)
(* The document a request inserts from.                                    *)
(***************************************************************************)

\* The caller's document, or its copy, is destroyed exactly when the insert has
\* succeeded, once, however many rounds failed before; every document passed by
\* reference was copied before the request was pushed or given up.
THEOREM DocumentsOwned == Spec => []DocumentOwned
<1>1. Init => DocumentOwned
  BY DEF Init, DocumentOwned
<1>2. TypeInv /\ DocumentOwned /\ [Next]_vars => DocumentOwned'
  <2> SUFFICES ASSUME TypeInv, DocumentOwned, [Next]_vars PROVE DocumentOwned'
    OBVIOUS
  <2> USE DEF TypeInv, TypeOK, DocumentOwned, callVars, requestVars, serverVars
  <2>1. CASE Start
    <3>1. Head(queue) \in Request /\ stage[Head(queue)] = "queued"
      BY <2>1 DEF Start, QueueInv
    <3> QED
      BY <2>1, <3>1 DEF Start
  <2>2. ASSUME NEW r \in Request, EnsureCreation(r)
        PROVE  DocumentOwned'
    BY <2>2 DEF EnsureCreation
  <2>3. ASSUME NEW r \in Request, NEW i \in Id, Draw(r, i)
        PROVE  DocumentOwned'
    BY <2>3 DEF Draw
  <2>4. ASSUME NEW r \in Request, InsertFails(r) \/ Insert(r) \/ AnswerLost(r)
        PROVE  DocumentOwned'
    BY <2>4 DEF InsertFails, Insert, AnswerLost
  <2>5. ASSUME NEW r \in Request, Created(r)
        PROVE  DocumentOwned'
    BY <2>5 DEF Created
  <2>6. ASSUME NEW r \in Request, Callback(r)
        PROVE  DocumentOwned'
    BY <2>6 DEF Callback
  <2>7. CASE Break \/ Mend \/ UNCHANGED vars
    BY <2>7 DEF Break, Mend, vars
  <2> QED
    BY <2>1, <2>2, <2>3, <2>4, <2>5, <2>6, <2>7 DEF Next, Execute
<1> QED
  BY <1>1, <1>2, InitType, NextType, PTL DEF Spec

=============================================================================
