----------------------------- MODULE SerialProofs -----------------------------
(***************************************************************************)
(* What Transaction keeps with one database thread, when nobody uses an    *)
(* owner that update() is about to give up: the batches of a log are       *)
(* executed in the order they were sent, so the last entry of a log is     *)
(* done last, an owner is deleted when all of its log is done and all that *)
(* is in flight of it is the last store of a batch, a dependency is passed *)
(* when its operation has been carried out, and the logs implement         *)
(* OperationLog.                                                           *)
(***************************************************************************)
EXTENDS TransactionProofs

----------------------------------------------------------------------------
(***************************************************************************)
(* The steps, as the proofs below tell them apart.                         *)
(***************************************************************************)

\* A push with its entry by name.
Pushes(t, c, e) ==
    /\ e \in Entry
    /\ ~e.pending
    /\ ~e.done
    /\ Push(t, c, e)
    /\ \/ e.kind # "dependency"
       \/ \E o \in Owner, id \in 0 .. MaxSlots - 1 :
            /\ o \in present
            /\ id \in DOMAIN transactions[o][c]
            /\ transactions[o][c][id].kind # "dependency"
            /\ e.on = [owner |-> o, epoch |-> epoch[o], collection |-> c, id |-> id]

\* update() passes entries that need no batch, up to end.
Passes(t, c, end) ==
    /\ cursor[t] > 0
    /\ end \in first_id[t][c] .. current_id[t][c]
    /\ ScanEnds(t, c, end)
    /\ Taken(t, c, end) = {}
    /\ first_id' = [first_id EXCEPT ![t][c] = end]
    /\ cursor' = [cursor EXCEPT ![t] = 0]
    /\ UNCHANGED <<lifeVars, epoch, current_id, transactions, poolVars>>

\* update() sends a batch.
Submits(t, c, end, ids, n) ==
    /\ cursor[t] > 0
    /\ Sends(t, c, end, ids, n)
    /\ cursor' = [cursor EXCEPT ![t] = NextCursor(t)]
    /\ UNCHANGED <<lifeVars, applied>>

\* A batch goes on or ends: it carries out its operations but left, and flags

\* A thread goes on with a batch b, which becomes s or has ended: it carries out
\* the operations ran, and flags the entries ids as done.
Runs(b, s, ran, ids, ended) ==
    /\ Executes(b, s, ids, ended)
    /\ ended \in BOOLEAN
    /\ ran \subseteq b.left
    /\ ran # {} => Alive(b)
    /\ \A i \in ran, j \in b.left : i <= j
    /\ b.callable => \A i \in ran, j \in b.ids : i <= j
    /\ s.left \subseteq b.left \ ran
    /\ ~BulkMayFail => s.left = b.left \ ran
    /\ \A i \in ids, j \in b.ids : i <= j
    /\ ~BulkMayFail => ids \cap b.left = {}
    /\ ran = {} \/ ids = {}
    /\ applied' = applied \cup {Op(b, id) : id \in ran}
    /\ UNCHANGED <<lifeVars, cursor>>

\* User code and update() set flags, time and cursor.
Marks(t) ==
    \/ FlagDeletion(t)
    \/ UnflagDeletion(t)
    \/ Remove(t)
    \/ UpdateHead(t)
    \/ SkipCollection(t)

\* They leave the logs and the pool alone.
LEMMA MarksFacts ==
    ASSUME NEW t \in Owner, Marks(t)
    PROVE  UNCHANGED <<logVars, poolVars>>
BY DEF Marks, FlagDeletion, UnflagDeletion, Remove, UpdateHead, CheckCollection,
       UpdateSchedules, UpdateIdle, UpdateStart, SkipCollection

\* The steps of a batch.
LEMMA ExecuteRuns ==
    ASSUME TypeOK, SubmitInv, NEW b \in running, Execute(b)
    PROVE  \E s, ran, ids, ended : Runs(b, s, ran, ids, ended)
<1> USE DEF logVars, timeVars, lifeVars, poolVars
<1>1. b \in Batch /\ b \in InFlight /\ BatchInv(b)
  BY DEF TypeOK, InFlight, SubmitInv
<1>2. ASSUME NEW id \in b.left, First(b.left, id), b.callable => First(b.ids, id),
             Alive(b),
             applied' = applied \cup {Op(b, id)},
             running' = (running \ {b}) \cup {[b EXCEPT !.left = b.left \ {id}]},
             UNCHANGED <<lifeVars, logVars, cursor, queue, pending_callables>>
      PROVE  \E s, ran, ids, ended : Runs(b, s, ran, ids, ended)
  <2>1. PICK s : s = [b EXCEPT !.left = b.left \ {id}]
    OBVIOUS
  <2>2. /\ s \in Batch /\ s.owner = b.owner /\ s.collection = b.collection
        /\ s.epoch = b.epoch /\ s.callable = b.callable /\ s.ids = b.ids
        /\ s.left = b.left \ {id} /\ s.undone = b.undone
    BY <1>1, <2>1 DEF Batch
  <2>3. Stores(b, {})
    BY <1>2 DEF Stores
  <2>4. Executes(b, s, {}, FALSE)
    BY <1>1, <1>2, <2>1, <2>2, <2>3 DEF Executes, BatchInv, SameLog
  <2>5. {Op(b, i) : i \in {id}} = {Op(b, id)}
    OBVIOUS
  <2>6. \A j \in b.left : id <= j
    BY <1>2 DEF First
  <2>7. b.callable => \A j \in b.ids : id <= j
    BY <1>2 DEF First
  <2>8. Runs(b, s, {id}, {}, FALSE)
    BY <1>2, <2>2, <2>4, <2>5, <2>6, <2>7 DEF Runs
  <2> QED
    BY <2>8
<1>3. CASE BulkApply(b)
  <2>1. PICK id \in b.left :
          /\ First(b.left, id)
          /\ applied' = applied \cup {Op(b, id)}
          /\ running' = (running \ {b}) \cup {[b EXCEPT !.left = b.left \ {id}]}
    BY <1>3 DEF BulkApply
  <2>2. /\ Alive(b) /\ ~b.callable
        /\ UNCHANGED <<lifeVars, logVars, cursor, queue, pending_callables>>
    BY <1>3 DEF BulkApply
  <2> QED
    BY <1>2, <2>1, <2>2
<1>4. CASE RunCallable(b)
  <2>1. PICK id \in b.left :
          /\ First(b.ids, id)
          /\ applied' = applied \cup {Op(b, id)}
          /\ running' = (running \ {b}) \cup {[b EXCEPT !.left = b.left \ {id}]}
    BY <1>4 DEF RunCallable
  <2>2. Alive(b) /\ UNCHANGED <<lifeVars, logVars, cursor, queue, pending_callables>>
    BY <1>4 DEF RunCallable
  <2>3. First(b.left, id)
    BY <1>1, <2>1 DEF First, BatchInv
  <2> QED
    BY <1>2, <2>1, <2>2, <2>3
<1>5. ASSUME NEW s, NEW ids, NEW ended, Executes(b, s, ids, ended), ended \in BOOLEAN,
             \A i \in ids, j \in b.ids : i <= j,
             ~BulkMayFail => ids \cap b.left = {} /\ s.left = b.left,
             UNCHANGED <<lifeVars, cursor, applied>>
      PROVE  Runs(b, s, {}, ids, ended)
  <2>1. {Op(b, i) : i \in {}} = {}
    OBVIOUS
  <2>2. s.left \subseteq b.left
    BY <1>5 DEF Executes
  <2> QED
    BY <1>5, <2>1, <2>2 DEF Runs
<1>6. CASE FlagDone(b)
  <2>1. PICK id \in b.undone :
          /\ First(b.ids, id)
          /\ Returned(b, id)
          /\ transactions' =
                [transactions EXCEPT ![b.owner][b.collection][id].done = TRUE]
          /\ running' = (running \ {b}) \cup
                {[b EXCEPT !.undone = @ \ {id},
                           !.left = IF b.callable THEN @ ELSE {}]}
    BY <1>6 DEF FlagDone
  <2>2. PICK s : s = [b EXCEPT !.undone = @ \ {id},
                               !.left = IF b.callable THEN @ ELSE {}]
    OBVIOUS
  <2>3. /\ s \in Batch /\ s.owner = b.owner /\ s.collection = b.collection
        /\ s.epoch = b.epoch /\ s.callable = b.callable /\ s.ids = b.ids
        /\ s.left = (IF b.callable THEN b.left ELSE {}) /\ s.undone = b.undone \ {id}
    BY <1>1, <2>2 DEF Batch
  <2>4. /\ Alive(b)
        /\ UNCHANGED <<epoch, first_id, current_id, queue, pending_callables>>
        /\ UNCHANGED <<lifeVars, cursor, applied>>
    BY <1>6 DEF FlagDone
  <2>5. s.left \subseteq b.left /\ s.left \subseteq s.undone
    BY <1>1, <2>1, <2>3 DEF BatchInv, Returned
  <2>6. Stores(b, {id})
    <3>1. PICK t, c : t = b.owner /\ c = b.collection /\ t \in Owner /\ c \in Collection
      BY <1>1 DEF Batch
    <3>2. first_id[t][c] \in Nat /\ current_id[t][c] \in Nat /\ first_id[t][c] <= current_id[t][c]
      BY <3>1 DEF TypeOK, SubmitInv, Frontier
    <3>3. id \in Nat /\ id < first_id[t][c]
      BY <1>1, <2>4, <3>1 DEF BatchInv, Batch
    <3>4. id \in 0 .. current_id[b.owner][b.collection] - 1
      BY <3>1, <3>2, <3>3
    <3> QED
      BY <1>1, <2>1, <3>4, DoneLog
  <2>7. Executes(b, s, {id}, FALSE)
    BY <1>1, <2>1, <2>2, <2>3, <2>4, <2>5, <2>6 DEF Executes, BatchInv, SameLog
  <2>8. ~BulkMayFail => {id} \cap b.left = {} /\ s.left = b.left
    BY <2>1, <2>3 DEF Returned
  <2>9. Runs(b, s, {}, {id}, FALSE)
    BY <1>5, <2>1, <2>4, <2>7, <2>8 DEF First
  <2> QED
    BY <2>9
<1>7. CASE ClearPending(b)
  <2>1. PICK id \in b.ids \ b.undone :
          /\ \/ UNCHANGED transactions
             \/ \E t \in Owner, c \in Collection : \E i \in DOMAIN transactions[t][c] :
                  transactions' = [transactions EXCEPT ![t][c][i].pending = FALSE]
          /\ running' = (running \ {b}) \cup
                (IF b.ids = {id} THEN {} ELSE {[b EXCEPT !.ids = @ \ {id}]})
    BY <1>7 DEF ClearPending
  <2>2. PICK s, ended : s = [b EXCEPT !.ids = @ \ {id}] /\ ended = (b.ids = {id})
    OBVIOUS
  <2>3. /\ s \in Batch /\ s.owner = b.owner /\ s.collection = b.collection
        /\ s.epoch = b.epoch /\ s.callable = b.callable /\ s.ids = b.ids \ {id}
        /\ s.left = b.left /\ s.undone = b.undone
    BY <1>1, <2>2 DEF Batch
  <2>4. /\ UNCHANGED <<epoch, first_id, current_id, queue, pending_callables>>
        /\ UNCHANGED <<lifeVars, cursor, applied>>
    BY <1>7 DEF ClearPending
  <2>5. Stores(b, {})
    <3>1. CASE UNCHANGED transactions
      BY <3>1 DEF Stores
    <3>2. CASE ~UNCHANGED transactions
      BY <3>2, <2>1, PendingLog
    <3> QED
      BY <3>1, <3>2
  <2>6. running' = (running \ {b}) \cup (IF ended THEN {} ELSE {s}) /\ ended \in BOOLEAN
    BY <2>1, <2>2
  <2>7. s.undone \subseteq s.ids /\ (IF ended THEN s.undone = {} ELSE s.ids # {})
    BY <1>1, <2>1, <2>2, <2>3 DEF BatchInv
  <2>8. Executes(b, s, {}, ended)
    BY <1>1, <2>3, <2>4, <2>5, <2>6, <2>7 DEF Executes, BatchInv, SameLog
  <2>9. Runs(b, s, {}, {}, ended)
    BY <1>5, <2>3, <2>4, <2>6, <2>8
  <2> QED
    BY <2>9
<1> QED
  BY <1>3, <1>4, <1>6, <1>7 DEF Execute

\* Every step is one of these.
LEMMA NextSteps ==
    ASSUME TypeOK, SubmitInv, [Next]_vars
    PROVE  \/ \E t \in Owner, c \in Collection : \E e : Pushes(t, c, e)
           \/ \E t \in Owner, c \in Collection : \E end : Passes(t, c, end)
           \/ \E t \in Owner, c \in Collection : \E end, ids, n :
                 Submits(t, c, end, ids, n)
           \/ \E t \in Owner : Reinit(t) \/ Marks(t)
           \/ StartBatch
           \/ \E b, s, ran, ids, ended : Runs(b, s, ran, ids, ended)
           \/ UNCHANGED vars
<1> USE DEF logVars, timeVars, lifeVars, poolVars
<1> DEFINE Goal ==
           \/ \E t \in Owner, c \in Collection : \E e : Pushes(t, c, e)
           \/ \E t \in Owner, c \in Collection : \E end : Passes(t, c, end)
           \/ \E t \in Owner, c \in Collection : \E end, ids, n :
                 Submits(t, c, end, ids, n)
           \/ \E t \in Owner : Reinit(t) \/ Marks(t)
           \/ StartBatch
           \/ \E b, s, ran, ids, ended : Runs(b, s, ran, ids, ended)
           \/ UNCHANGED vars
<1>1. ASSUME NEW t \in Owner, NEW c \in Collection,
             PushOperation(t, c) \/ PushCallable(t, c)
      PROVE  Goal
  <2>1. PICK e \in {NewEntry("write", <<>>), NewEntry("callable", <<>>)} : Push(t, c, e)
    BY <1>1 DEF PushOperation, PushCallable
  <2>2. e \in Entry
    BY NewEntryType
  <2>3. ~e.pending /\ ~e.done /\ e.kind # "dependency"
    BY DEF NewEntry
  <2>4. Pushes(t, c, e)
    BY <2>1, <2>2, <2>3 DEF Pushes
  <2> QED
    BY <2>4
<1>2. ASSUME NEW t \in Owner, NEW c \in Collection, NEW o \in Owner,
             NEW id \in 0 .. MaxSlots - 1, PushDependency(t, c, o, id)
      PROVE  Goal
  <2> DEFINE on == [owner |-> o, epoch |-> epoch[o], collection |-> c, id |-> id]
             e == NewEntry("dependency", on)
  <2>1. on \in Operation
    BY ConstantsAssumption DEF Operation, TypeOK
  <2>2. e \in Entry
    BY <2>1, NewEntryType
  <2>3. ~e.pending /\ ~e.done /\ e.on = on
    BY DEF NewEntry
  <2>4. /\ Push(t, c, e) /\ o \in present /\ id \in DOMAIN transactions[o][c]
        /\ transactions[o][c][id].kind # "dependency"
    BY <1>2 DEF PushDependency
  <2> HIDE DEF e
  <2>5. Pushes(t, c, e)
    BY <2>2, <2>3, <2>4 DEF Pushes
  <2> QED
    BY <2>5
<1>3. ASSUME NEW t \in Owner,
             FlagDeletion(t) \/ UnflagDeletion(t) \/ Remove(t) \/ UpdateHead(t)
      PROVE  Goal
  BY <1>3 DEF Marks
<1>4. ASSUME NEW t \in Owner, SkipCollection(t)
      PROVE  Goal
  BY <1>4 DEF Marks
<1>5. ASSUME NEW t \in Owner, NothingPending(t)
      PROVE  Goal
  <2> DEFINE c == Collections[cursor[t]]
  <2>1. c \in Collection
    BY <1>5, CursorCollection DEF NothingPending
  <2>2. PICK end \in first_id[t][c] .. current_id[t][c] :
          /\ ScanEnds(t, c, end)
          /\ Taken(t, c, end) = {}
          /\ first_id' = [first_id EXCEPT ![t][c] = end]
    BY <1>5 DEF NothingPending
  <2>3. /\ cursor[t] > 0 /\ cursor' = [cursor EXCEPT ![t] = 0]
        /\ UNCHANGED <<lifeVars, epoch, current_id, transactions, poolVars>>
    BY <1>5 DEF NothingPending
  <2> HIDE DEF c
  <2>4. Passes(t, c, end)
    BY <2>2, <2>3 DEF Passes
  <2> QED
    BY <2>1, <2>4
<1>6. ASSUME NEW t \in Owner, SendBatch(t)
      PROVE  Goal
  <2>1. PICK c \in Collection : \E end, ids, n : Sends(t, c, end, ids, n)
    BY <1>6, SendBatchSends
  <2>2. PICK end, ids, n : Sends(t, c, end, ids, n)
    BY <2>1
  <2>3. /\ cursor[t] > 0 /\ cursor' = [cursor EXCEPT ![t] = NextCursor(t)]
        /\ UNCHANGED <<lifeVars, applied>>
    BY <1>6 DEF SendBatch
  <2>4. Submits(t, c, end, ids, n)
    BY <2>2, <2>3 DEF Submits
  <2> QED
    BY <2>4
<1>7. ASSUME NEW b \in running, Execute(b) PROVE Goal
  BY <1>7, ExecuteRuns
<1> HIDE DEF Goal
<1>8. ASSUME NEW t \in Owner, User(t) PROVE Goal
  <2>1. CASE Reinit(t)
    BY <2>1 DEF Goal
  <2> QED
    BY <1>1, <1>2, <1>3, <1>8, <2>1 DEF User
<1>9. ASSUME NEW t \in Owner, UpdateHead(t) \/ UpdateBody(t) PROVE Goal
  BY <1>3, <1>4, <1>5, <1>6, <1>9 DEF UpdateBody
<1>10. StartBatch \/ UNCHANGED vars => Goal
  BY DEF Goal
<1>11. Goal
  BY <1>7, <1>8, <1>9, <1>10 DEF Next
<1> QED
  BY <1>11 DEF Goal

\* What a push does to the logs.
LEMMA PushesFacts ==
    ASSUME TypeOK, NEW t \in Owner, NEW c \in Collection, NEW e, Pushes(t, c, e)
    PROVE  /\ UNCHANGED <<lifeVars, cursor, epoch, first_id, poolVars>>
           /\ ~scheduled[t] /\ (~UsedInCheck => checked[t] = 0)
           /\ current_id'[t][c] = current_id[t][c] + 1
           /\ transactions'[t][c][current_id[t][c]] = e
           /\ \A o \in Owner, k \in Collection : o # t \/ k # c =>
                current_id'[o][k] = current_id[o][k]
           /\ \A o \in Owner, k \in Collection : \A id \in 0 .. current_id[o][k] - 1 :
                transactions'[o][k][id] = transactions[o][k][id]
<1>0. e \in Entry /\ Push(t, c, e)
  BY DEF Pushes
<1>1. /\ current_id'[t][c] = current_id[t][c] + 1
      /\ \A o \in Owner, k \in Collection : o # t \/ k # c =>
          /\ current_id'[o][k] = current_id[o][k]
          /\ transactions'[o][k] = transactions[o][k]
      /\ transactions'[t][c][current_id[t][c]] = e
      /\ \A id \in 0 .. current_id[t][c] - 1 :
          transactions'[t][c][id] = transactions[t][c][id]
  BY <1>0, PushLog
<1>2. UNCHANGED <<lifeVars, cursor, epoch, first_id, poolVars>> /\ ~scheduled[t]
  BY DEF Pushes, Push, Usable, lifeVars, poolVars
<1>3. Usable(t)
  BY DEF Pushes, Push
<1>4. ~UsedInCheck => checked[t] = 0
  BY <1>3 DEF Usable, Unchecked
<1> QED
  BY <1>1, <1>2, <1>4

\* What passing entries does to first_id.
LEMMA PassesFacts ==
    ASSUME TypeOK, NEW t \in Owner, NEW c \in Collection, NEW end, Passes(t, c, end)
    PROVE  /\ UNCHANGED <<lifeVars, epoch, current_id, transactions, poolVars>>
           /\ end \in Nat
           /\ first_id[t][c] <= end
           /\ end <= current_id[t][c]
           /\ first_id'[t][c] = end
           /\ \A o \in Owner, k \in Collection : o # t \/ k # c =>
                first_id'[o][k] = first_id[o][k]
           /\ cursor[t] > 0
           /\ cursor'[t] = 0
           /\ \A o \in Owner : o # t => cursor'[o] = cursor[o]
<1>1. first_id[t][c] \in Nat /\ current_id[t][c] \in Nat
  BY LogType
<1>2. end \in first_id[t][c] .. current_id[t][c]
  BY DEF Passes
<1> QED
  BY <1>1, <1>2 DEF Passes, TypeOK

\* What sending a batch does to the log and the queue.
LEMMA SubmitsFacts ==
    ASSUME TypeOK, SubmitInv, NEW t \in Owner, NEW c \in Collection,
           NEW end, NEW ids, NEW n, Submits(t, c, end, ids, n)
    PROVE  /\ UNCHANGED <<lifeVars, epoch, current_id, running, applied>>
           /\ end \in Nat
           /\ first_id[t][c] <= end
           /\ end <= current_id[t][c]
           /\ ids # {}
           /\ ids \subseteq Nat
           /\ \A id \in ids : /\ first_id[t][c] <= id
                              /\ id < end
                              /\ transactions[t][c][id].kind # "dependency"
           /\ first_id'[t][c] = end
           /\ \A o \in Owner, k \in Collection : o # t \/ k # c =>
                first_id'[o][k] = first_id[o][k]
           /\ \A o \in Owner, k \in Collection : \A id \in 0 .. current_id[o][k] - 1 :
                /\ transactions'[o][k][id].kind = transactions[o][k][id].kind
                /\ transactions'[o][k][id].done = transactions[o][k][id].done
                /\ transactions[o][k][id].kind = "dependency" =>
                     transactions'[o][k][id] = transactions[o][k][id]
           /\ n \in Batch
           /\ n.owner = t /\ n.epoch = epoch[t] /\ n.collection = c
           /\ n.ids = ids /\ n.left = ids /\ n.undone = ids
           /\ ~Connected => queue' = queue /\ InFlight' = InFlight
           /\ Connected => /\ queue' = Append(queue, n)
                           /\ InFlight' = InFlight \cup {n}
           /\ cursor[t] > 0
           /\ \A o \in Owner : o # t => cursor'[o] = cursor[o]
<1>1. Sends(t, c, end, ids, n)
  BY DEF Submits
<1>2. first_id[t][c] \in Nat /\ current_id[t][c] \in Nat /\ epoch[t] \in Nat
  BY LogType
<1>3. end \in first_id[t][c] .. current_id[t][c] /\ ids = Taken(t, c, end) /\ ids # {}
  BY <1>1 DEF Sends
<1>4. ids \subseteq first_id[t][c] .. end - 1 /\ end \in Nat
  BY <1>3, TakenIds
<1>5. \A id \in ids : transactions[t][c][id].kind # "dependency"
  BY <1>3 DEF Taken
<1>6. /\ first_id'[t][c] = end
      /\ \A o \in Owner, k \in Collection : o # t \/ k # c =>
            first_id'[o][k] = first_id[o][k]
  BY <1>1 DEF TypeOK, Sends
<1>7. \A o \in Owner, k \in Collection : \A id \in 0 .. current_id[o][k] - 1 :
        /\ transactions'[o][k][id].kind = transactions[o][k][id].kind
        /\ transactions'[o][k][id].done = transactions[o][k][id].done
        /\ o # t \/ k # c \/ id \notin ids =>
             transactions'[o][k][id] = transactions[o][k][id]
  <2>1. transactions' = FlagPending(t, c, ids)
    BY <1>1 DEF Sends
  <2> QED
    BY <2>1, FlagPendingLog
<1>8. /\ n \in Batch
      /\ n.owner = t /\ n.epoch = epoch[t] /\ n.collection = c
      /\ n.ids = ids /\ n.left = ids /\ n.undone = ids
  <2>1. n = [owner |-> t, epoch |-> epoch[t], collection |-> c,
             callable |-> Callables(t, c, ids) # {}, ids |-> ids, left |-> ids,
             undone |-> ids]
    BY <1>1 DEF Sends
  <2>2. ids \subseteq Nat
    BY <1>2, <1>4
  <2> QED
    BY <2>1, <2>2, <1>2 DEF Batch
<1>9. running' = running /\ queue' = IF Connected THEN Append(queue, n) ELSE queue
  BY <1>1 DEF Sends
<1>10. ~Connected => queue' = queue /\ InFlight' = InFlight
  BY <1>9 DEF InFlight
<1>11. ASSUME Connected PROVE queue' = Append(queue, n) /\ InFlight' = InFlight \cup {n}
  <2>1. queue' = Append(queue, n) /\ queue \in Seq(Batch)
    BY <1>9, <1>11 DEF TypeOK
  <2>2. /\ Len(queue') = Len(queue) + 1
        /\ Len(queue) \in Nat
        /\ \A k \in 1 .. Len(queue) : queue'[k] = queue[k]
        /\ queue'[Len(queue) + 1] = n
    BY <2>1, <1>8
  <2> QED
    BY <2>1, <2>2, <1>9 DEF InFlight
<1>12. /\ UNCHANGED <<lifeVars, epoch, current_id, running, applied>>
       /\ cursor[t] > 0
       /\ cursor' = [cursor EXCEPT ![t] = NextCursor(t)]
  BY <1>1 DEF Submits, Sends
<1>13. \A o \in Owner : o # t => cursor'[o] = cursor[o]
  BY <1>12 DEF TypeOK
<1>14. \A id \in ids : /\ first_id[t][c] <= id
                       /\ id < end
                       /\ id \in Nat
  BY <1>2, <1>4
<1>15. \A o \in Owner, k \in Collection : \A id \in 0 .. current_id[o][k] - 1 :
         transactions[o][k][id].kind = "dependency" =>
            transactions'[o][k][id] = transactions[o][k][id]
  BY <1>5, <1>7
<1>16. first_id[t][c] <= end /\ end <= current_id[t][c]
  BY <1>2, <1>3
<1> QED
  BY <1>3, <1>4, <1>5, <1>6, <1>7, <1>8, <1>10, <1>11, <1>12, <1>13, <1>14, <1>15, <1>16


\* What a batch that goes on does to the log and the batches.
LEMMA RunsFacts ==
    ASSUME TypeOK, SubmitInv, NEW b, NEW s, NEW ran, NEW ids, NEW ended,
           Runs(b, s, ran, ids, ended)
    PROVE  /\ UNCHANGED <<lifeVars, cursor, epoch, first_id, current_id, queue>>
           /\ b \in Batch /\ b \in InFlight /\ BatchInv(b)
           /\ b.owner \in Owner /\ b.collection \in Collection
           /\ b.ids \subseteq Nat /\ b.left \subseteq b.undone /\ b.undone \subseteq b.ids
           /\ ids \subseteq b.undone /\ (ids # {} => Alive(b))
           /\ \A o \in Owner, k \in Collection : \A id \in 0 .. current_id[o][k] - 1 :
                /\ transactions'[o][k][id].kind = transactions[o][k][id].kind
                /\ transactions'[o][k][id].on = transactions[o][k][id].on
                /\ transactions'[o][k][id].done <=>
                     \/ transactions[o][k][id].done
                     \/ o = b.owner /\ k = b.collection /\ id \in ids
           /\ s.owner = b.owner /\ s.epoch = b.epoch /\ s.collection = b.collection
           /\ s.ids \subseteq b.ids /\ s.left \subseteq b.left /\ s.undone = b.undone \ ids
           /\ \A a \in InFlight' : (a \in InFlight /\ a # b) \/ (~ended /\ a = s)
<1>1. /\ b \in running
      /\ ids \subseteq b.undone /\ (ids # {} => Alive(b))
      /\ Stores(b, ids)
      /\ running' = (running \ {b}) \cup (IF ended THEN {} ELSE {s})
      /\ UNCHANGED <<lifeVars, cursor, epoch, first_id, current_id, queue>>
      /\ s.owner = b.owner /\ s.epoch = b.epoch /\ s.collection = b.collection
      /\ s.ids \subseteq b.ids /\ s.left \subseteq b.left /\ s.undone = b.undone \ ids
  BY DEF Runs, Executes, SameLog
<1>2. b \in Batch /\ b \in InFlight /\ BatchInv(b)
  BY <1>1 DEF TypeOK, InFlight, SubmitInv
<1>3. /\ b.owner \in Owner /\ b.collection \in Collection
      /\ b.ids \subseteq Nat /\ b.left \subseteq b.undone /\ b.undone \subseteq b.ids
  BY <1>2 DEF Batch, BatchInv
<1>4. ASSUME NEW o \in Owner, NEW k \in Collection, NEW id \in 0 .. current_id[o][k] - 1
      PROVE  /\ transactions'[o][k][id].kind = transactions[o][k][id].kind
             /\ transactions'[o][k][id].on = transactions[o][k][id].on
             /\ transactions'[o][k][id].done <=>
                     \/ transactions[o][k][id].done
                     \/ o = b.owner /\ k = b.collection /\ id \in ids
  BY <1>1 DEF Stores
<1>5. ASSUME NEW a \in InFlight'
      PROVE  (a \in InFlight /\ a # b) \/ (~ended /\ a = s)
  <2>1. \A k \in 1 .. Len(queue) : queue[k] # b
    BY <1>1 DEF SubmitInv, QueueInv
  <2> QED
    BY <1>1, <2>1 DEF InFlight
<1> QED
  BY <1>1, <1>2, <1>3, <1>4, <1>5

----------------------------------------------------------------------------
(***************************************************************************)
(* The pool: one batch runs, and the batches of a log run in the order of  *)
(* their entries.                                                          *)
(***************************************************************************)

InOrder(a, b) == SameLog(a, b) => \A i \in a.ids, j \in b.ids : i < j

OneRuns ==
    /\ \A a, b \in running : a = b
    /\ \A b \in running, k \in 1 .. Len(queue) : InOrder(b, queue[k])

QueueInOrder ==
    \A j, k \in 1 .. Len(queue) : j < k => InOrder(queue[j], queue[k])

\* Of the entries of a batch, only the first may be done: the next one is
\* flagged when it has its last store.
FirstIsDone(b) == \A i \in b.ids \ b.undone, j \in b.ids : i <= j

PoolInv ==
    /\ InFlight # {} => Connected
    /\ \A b \in InFlight : FirstIsDone(b)
    /\ OneRuns
    /\ QueueInOrder

\* Without batches, nothing is out of order.
LEMMA InitPool == Init => PoolInv
<1> SUFFICES ASSUME Init PROVE PoolInv
  OBVIOUS
<1>1. InFlight = {} /\ Len(queue) = 0 /\ running = {}
  BY DEF Init, InFlight
<1> QED
  BY <1>1 DEF PoolInv, OneRuns, QueueInOrder

\* A batch that is sent comes behind those of its log in flight.
LEMMA SubmitsPool ==
    ASSUME TypeOK, SubmitInv, PoolInv, NEW t \in Owner, NEW c \in Collection,
           NEW end, NEW ids, NEW n, Submits(t, c, end, ids, n)
    PROVE  PoolInv'
<1>1. CASE ~Connected
  <2>1. queue' = queue /\ InFlight' = InFlight /\ running' = running
    BY <1>1, SubmitsFacts
  <2> QED
    BY <2>1 DEF PoolInv, OneRuns, QueueInOrder, InOrder, SameLog, FirstIsDone
<1>2. CASE Connected
  <2>1. /\ queue' = Append(queue, n) /\ InFlight' = InFlight \cup {n} /\ running' = running
        /\ n \in Batch /\ n.ids = ids /\ n.undone = ids /\ ids # {} /\ ids \subseteq Nat
        /\ n.owner = t /\ n.epoch = epoch[t] /\ n.collection = c
        /\ \A id \in ids : first_id[t][c] <= id
    BY <1>2, SubmitsFacts
  <2>2. /\ Len(queue') = Len(queue) + 1
        /\ Len(queue) \in Nat
        /\ \A k \in 1 .. Len(queue) : queue'[k] = queue[k]
        /\ queue'[Len(queue) + 1] = n
    BY <2>1 DEF TypeOK
  <2>3. ASSUME NEW b \in InFlight PROVE InOrder(b, n)
    <3> SUFFICES ASSUME SameLog(b, n), NEW i \in b.ids, NEW j \in n.ids PROVE i < j
      BY DEF InOrder
    <3>1. b \in Batch /\ BatchInv(b)
      BY InFlightType DEF SubmitInv
    <3>2. Alive(b) /\ b.owner = t /\ b.collection = c
      BY <2>1 DEF SameLog, Alive
    <3>3. i < first_id[t][c] /\ i \in Nat
      BY <3>1, <3>2 DEF BatchInv, Batch
    <3>4. first_id[t][c] \in Nat /\ first_id[t][c] <= j /\ j \in Nat
      BY <2>1, LogType
    <3> QED
      BY <3>3, <3>4
  <2>4. ASSUME NEW b \in running, NEW k \in 1 .. Len(queue') PROVE InOrder(b, queue'[k])
    <3>1. CASE k \in 1 .. Len(queue)
      BY <3>1, <2>2 DEF PoolInv, OneRuns
    <3>2. CASE k = Len(queue) + 1
      BY <3>2, <2>2, <2>3 DEF InFlight
    <3> QED
      BY <3>1, <3>2, <2>2
  <2>5. ASSUME NEW j \in 1 .. Len(queue'), NEW k \in 1 .. Len(queue'), j < k
        PROVE  InOrder(queue'[j], queue'[k])
    <3>0. j \in 1 .. Len(queue)
      BY <2>2, <2>5
    <3>1. CASE k \in 1 .. Len(queue)
      BY <3>0, <3>1, <2>2, <2>5 DEF PoolInv, QueueInOrder
    <3>2. CASE k = Len(queue) + 1
      <4>1. queue[j] \in InFlight
        BY <3>0 DEF InFlight
      <4> QED
        BY <3>0, <3>2, <4>1, <2>2, <2>3
    <3> QED
      BY <3>1, <3>2, <2>2
  <2>6. OneRuns'
    BY <2>1, <2>4 DEF OneRuns, PoolInv, InOrder, SameLog
  <2>7. QueueInOrder'
    BY <2>5 DEF QueueInOrder, InOrder, SameLog
  <2> QED
    BY <1>2, <2>1, <2>6, <2>7 DEF PoolInv, FirstIsDone
<1> QED
  BY <1>1, <1>2

\* The thread takes the batch at the head, and has no other.
LEMMA StartPool ==
    ASSUME DbThreads = 1, TypeOK, SubmitInv, PoolInv, StartBatch
    PROVE  PoolInv'
<1>1. InFlight' = InFlight
  BY StartSubmit
<1>2. /\ queue \in Seq(Batch) /\ queue # <<>>
      /\ queue' = Tail(queue) /\ running' = running \cup {Head(queue)}
      /\ Cardinality(running) < 1
  BY DEF StartBatch, TypeOK
<1>3. /\ Len(queue) \in Nat /\ Len(queue) >= 1
      /\ Len(queue') = Len(queue) - 1
      /\ \A k \in 1 .. Len(queue) - 1 : queue'[k] = queue[k + 1]
      /\ Head(queue) = queue[1]
  BY <1>2
<1>4. running = {}
  <2> SUFFICES ASSUME NEW b \in running PROVE FALSE
    OBVIOUS
  <2>1. running = {b}
    BY DEF PoolInv, OneRuns
  <2>2. Cardinality(running) = 1
    BY <2>1, FS_Singleton
  <2> QED
    BY <1>2, <2>2
<1>5. running' = {queue[1]}
  BY <1>2, <1>3, <1>4
<1>6. OneRuns'
  <2>1. ASSUME NEW k \in 1 .. Len(queue') PROVE InOrder(queue[1], queue'[k])
    <3>1. k + 1 \in 1 .. Len(queue) /\ 1 < k + 1 /\ 1 \in 1 .. Len(queue)
      BY <1>3
    <3>2. queue'[k] = queue[k + 1]
      BY <1>3
    <3> QED
      BY <3>1, <3>2 DEF PoolInv, QueueInOrder
  <2> QED
    BY <2>1, <1>5 DEF OneRuns, InOrder, SameLog
<1>7. QueueInOrder'
  <2>1. ASSUME NEW j \in 1 .. Len(queue'), NEW k \in 1 .. Len(queue'), j < k
        PROVE  InOrder(queue'[j], queue'[k])
    <3>1. k + 1 \in 1 .. Len(queue) /\ j + 1 < k + 1 /\ j + 1 \in 1 .. Len(queue)
      BY <1>3, <2>1
    <3>2. queue'[k] = queue[k + 1] /\ queue'[j] = queue[j + 1]
      BY <1>3
    <3> QED
      BY <3>1, <3>2 DEF PoolInv, QueueInOrder
  <2> QED
    BY <2>1 DEF QueueInOrder, InOrder, SameLog
<1> QED
  BY <1>1, <1>6, <1>7 DEF PoolInv, FirstIsDone


\* A batch that goes on is the same batch as far as the order is concerned.
LEMMA RunsPool ==
    ASSUME TypeOK, SubmitInv, PoolInv, NEW b, NEW s, NEW ran, NEW ids, NEW ended,
           Runs(b, s, ran, ids, ended)
    PROVE  PoolInv'
<1>1. /\ b \in InFlight /\ b \in Batch /\ queue' = queue
      /\ s.owner = b.owner /\ s.epoch = b.epoch /\ s.collection = b.collection
      /\ s.ids \subseteq b.ids /\ s.undone = b.undone \ ids
      /\ \A a \in InFlight' : (a \in InFlight /\ a # b) \/ (~ended /\ a = s)
  BY RunsFacts
<1>2. /\ b \in running
      /\ running' = (running \ {b}) \cup (IF ended THEN {} ELSE {s})
      /\ \A i \in ids, j \in b.ids : i <= j
  BY DEF Runs, Executes
<1>3. running = {b}
  BY <1>2 DEF PoolInv, OneRuns
<1>4. \A a \in running' : a = s
  BY <1>2, <1>3
<1>5. OneRuns'
  BY <1>1, <1>2, <1>4 DEF OneRuns, PoolInv, InOrder, SameLog
<1>6. QueueInOrder'
  BY <1>1 DEF PoolInv, QueueInOrder, InOrder, SameLog
<1>7. InFlight' # {} => Connected
  BY <1>1 DEF PoolInv
<1>8. FirstIsDone(s)
  <2> SUFFICES ASSUME NEW i \in s.ids \ s.undone, NEW j \in s.ids PROVE i <= j
    BY DEF FirstIsDone
  <2>1. i \in ids \/ i \in b.ids \ b.undone
    BY <1>1
  <2> QED
    BY <1>1, <1>2, <2>1 DEF PoolInv, FirstIsDone
<1>9. \A a \in InFlight' : FirstIsDone(a)
  BY <1>1, <1>8 DEF PoolInv
<1> QED
  BY <1>5, <1>6, <1>7, <1>9 DEF PoolInv, FirstIsDone

\* With one database thread, the batches stay in order.
LEMMA NextPool ==
    ASSUME DbThreads = 1, TypeOK, SubmitInv, PoolInv, [Next]_vars
    PROVE  PoolInv'
<1>1. ASSUME UNCHANGED <<queue, running>> PROVE PoolInv'
  BY <1>1 DEF PoolInv, OneRuns, QueueInOrder, InOrder, SameLog, InFlight, FirstIsDone
<1>2. ASSUME NEW t \in Owner, NEW c \in Collection, NEW e, Pushes(t, c, e) PROVE PoolInv'
  BY <1>1, <1>2, PushesFacts DEF poolVars
<1>3. ASSUME NEW t \in Owner, NEW c \in Collection, NEW end, Passes(t, c, end) PROVE PoolInv'
  BY <1>1, <1>3, PassesFacts DEF poolVars
<1>4. ASSUME NEW t \in Owner, Reinit(t) \/ Marks(t) PROVE PoolInv'
  BY <1>1, <1>4, MarksFacts DEF Reinit, poolVars
<1>5. CASE UNCHANGED vars
  BY <1>1, <1>5 DEF vars
<1> QED
  BY <1>2, <1>3, <1>4, <1>5, NextSteps, SubmitsPool, StartPool, RunsPool

\* An entry before those of the running batch is done, or in the same batch and
\* still to be flagged.
LEMMA BeforeRunning ==
    ASSUME TypeOK, SubmitInv, NoneForgotten, PoolInv, NEW b \in running, Alive(b),
           NEW j \in b.ids, NEW i \in 0 .. j - 1
    PROVE  \/ transactions[b.owner][b.collection][i].kind = "dependency"
           \/ transactions[b.owner][b.collection][i].done
           \/ i \in b.undone
<1> DEFINE t == b.owner
           c == b.collection
<1>1. b \in Batch /\ b \in InFlight /\ BatchInv(b)
  BY DEF TypeOK, InFlight, SubmitInv
<1>2. t \in Owner /\ c \in Collection /\ j \in Nat
  BY <1>1 DEF Batch
<1>3. j < first_id[t][c] /\ first_id[t][c] \in Nat
  BY <1>1, <1>2, LogType DEF BatchInv
<1>4. i \in 0 .. first_id[t][c] - 1
  BY <1>2, <1>3
<1>5. Connected
  BY <1>1 DEF PoolInv
<1>6. Accounted(t, c, i)
  BY <1>2, <1>4, <1>5 DEF NoneForgotten
<1>7. \A a \in InFlight : a.undone \subseteq a.ids
  BY DEF SubmitInv, BatchInv
<1>8. ASSUME NEW a \in InFlight, SameLog(a, Current(t, c, i)), i \in a.undone
      PROVE  a = b
  <2>1. SameLog(b, a)
    BY <1>8 DEF SameLog, Current, Alive
  <2>2. CASE a \in running
    BY <2>2 DEF PoolInv, OneRuns
  <2>3. ASSUME NEW k \in 1 .. Len(queue), a = queue[k] PROVE FALSE
    <3>1. j < i
      BY <1>8, <1>7, <2>1, <2>3 DEF PoolInv, OneRuns, InOrder
    <3> QED
      BY <3>1, <1>2
  <2> QED
    BY <2>2, <2>3 DEF InFlight
<1> QED
  BY <1>6, <1>8 DEF Accounted

----------------------------------------------------------------------------
(***************************************************************************)
(* Deletion: the entries of a log are done in order, so that the last one  *)
(* tells about all of them, and about the batches that point to them.      *)
(***************************************************************************)
----------------------------------------------------------------------------
(***************************************************************************)
(* Deletion: the entries of a log are done in order, so that the last one  *)
(* tells about all of them, and about the batches that point to them.      *)
(***************************************************************************)

DoneUpTo(t, c, id) ==
    \A i \in 0 .. id - 1 :
        transactions[t][c][i].kind = "dependency" \/ transactions[t][c][i].done

DoneInOrder ==
    \A t \in Owner, c \in Collection : \A j \in 0 .. current_id[t][c] - 1 :
        transactions[t][c][j].done => DoneUpTo(t, c, j)

\* An owner is through with the log of a collection.
Through(t, c) == DoneUpTo(t, c, current_id[t][c])

\* No owner is dropped that update() has not given up, and update() does not
\* work on the owners it has given up.
Dropped ==
    \A t \in Owner :
        /\ t \notin present => scheduled[t]
        /\ scheduled[t] => flagged[t] /\ cursor[t] = 0

\* An owner that was given up is through with its logs.
Idle == \A t \in Owner : scheduled[t] => \A c \in Collection : Through(t, c)

\* An owner that may be given up is through with the logs looked at so far.
Checking ==
    \A t \in Owner : checked[t] > 0 =>
        /\ t \in present /\ flagged[t] /\ ~scheduled[t] /\ cursor[t] = 0
        /\ \A k \in 1 .. checked[t] : Through(t, Collections[k])

SerialInv ==
    DoneInOrder /\ Dropped /\ Idle /\ Checking /\ OnlyLastStoreDangles

\* A new object has nothing to wait for.
LEMMA InitSerial == Init => SerialInv
<1> SUFFICES ASSUME Init PROVE SerialInv
  OBVIOUS
<1>1. InFlight = {}
  BY DEF Init, InFlight
<1>2. \A t \in Owner, c \in Collection : current_id[t][c] = 0
  BY DEF Init
<1>3. DoneInOrder
  BY <1>2 DEF DoneInOrder
<1>4. Dropped /\ Idle /\ Checking
  BY DEF Init, Dropped, Idle, Checking
<1> QED
  BY <1>1, <1>3, <1>4 DEF SerialInv, OnlyLastStoreDangles

\* The keys of the collections.
LEMMA CollectionKeys ==
    ASSUME TypeOK, NEW t \in Owner
    PROVE  /\ Len(Collections) \in Nat
           /\ checked[t] \in Nat /\ checked[t] <= Len(Collections)
           /\ \A k \in 1 .. Len(Collections) : Collections[k] \in Collection
           /\ \A c \in Collection : \E k \in 1 .. Len(Collections) : c = Collections[k]
BY ConstantsAssumption DEF TypeOK, Collection

\* Where the last entry is done, all are.
LEMMA LogDoneThrough ==
    ASSUME TypeOK, DoneInOrder, NEW t \in Owner, NEW c \in Collection, LogDone(t, c)
    PROVE  Through(t, c)
<1>1. current_id[t][c] \in Nat
  BY LogType
<1>2. CASE current_id[t][c] = 0
  BY <1>2 DEF Through, DoneUpTo
<1>3. CASE current_id[t][c] > 0
  <2> DEFINE last == current_id[t][c] - 1
  <2>1. last \in 0 .. current_id[t][c] - 1 /\ transactions[t][c][last].done
    BY <1>1, <1>3 DEF LogDone
  <2>2. DoneUpTo(t, c, last)
    BY <2>1 DEF DoneInOrder
  <2>3. \A i \in 0 .. current_id[t][c] - 1 : i = last \/ i \in 0 .. last - 1
    BY <1>1
  <2> QED
    BY <2>1, <2>2, <2>3 DEF Through, DoneUpTo
<1> QED
  BY <1>1, <1>2, <1>3

\* A batch of an owner that is through with its logs has the last store left.
LEMMA ThroughIsLast ==
    ASSUME TypeOK, SubmitInv, PoolInv, NEW b \in InFlight, Alive(b),
           Through(b.owner, b.collection)
    PROVE  b.left = {} /\ b.undone = {} /\ \A i, j \in b.ids : i = j
<1>1. b \in Batch /\ BatchInv(b) /\ FirstIsDone(b)
  BY InFlightType DEF SubmitInv, PoolInv
<1>2. b.owner \in Owner /\ b.collection \in Collection /\ b.ids \subseteq Nat
  BY <1>1 DEF Batch
<1>3. ASSUME NEW id \in b.undone PROVE FALSE
  <2>1. id \in b.ids /\ id \in Nat
    BY <1>1, <1>2 DEF BatchInv
  <2>2. /\ id < first_id[b.owner][b.collection]
        /\ transactions[b.owner][b.collection][id].kind # "dependency"
        /\ ~transactions[b.owner][b.collection][id].done
    BY <1>1, <2>1 DEF BatchInv
  <2>3. id \in 0 .. current_id[b.owner][b.collection] - 1
    BY <1>2, <2>1, <2>2, LogType DEF SubmitInv, Frontier
  <2> QED
    BY <2>2, <2>3 DEF Through, DoneUpTo
<1>4. b.undone = {} /\ b.left = {}
  BY <1>1, <1>3 DEF BatchInv
<1>5. \A i, j \in b.ids : i <= j
  BY <1>1, <1>4 DEF FirstIsDone
<1>6. \A i, j \in b.ids : i \in Nat /\ j \in Nat
  BY <1>2
<1>7. \A i, j \in b.ids : i = j
  BY <1>5, <1>6
<1> QED
  BY <1>4, <1>7

\* What leaves the logs' kinds and done entries alone keeps what is done up to
\* an id.
LEMMA DoneKeeps ==
    ASSUME TypeOK,
           \A o \in Owner, k \in Collection : \A id \in 0 .. current_id[o][k] - 1 :
              /\ transactions'[o][k][id].kind = transactions[o][k][id].kind
              /\ transactions[o][k][id].done => transactions'[o][k][id].done
    PROVE  /\ \A o \in Owner, k \in Collection : \A j \in 0 .. current_id[o][k] :
                 DoneUpTo(o, k, j) => DoneUpTo(o, k, j)'
           /\ \A o \in Owner, k \in Collection :
                 current_id'[o][k] = current_id[o][k] /\ Through(o, k) => Through(o, k)'
<1>1. ASSUME NEW o \in Owner, NEW k \in Collection, NEW j \in 0 .. current_id[o][k],
             DoneUpTo(o, k, j)
      PROVE  DoneUpTo(o, k, j)'
  <2>1. \A i \in 0 .. j - 1 : i \in 0 .. current_id[o][k] - 1
    BY LogType
  <2> QED
    BY <1>1, <2>1 DEF DoneUpTo
<1>2. ASSUME NEW o \in Owner, NEW k \in Collection,
             current_id'[o][k] = current_id[o][k], Through(o, k)
      PROVE  Through(o, k)'
  <2>1. current_id[o][k] \in 0 .. current_id[o][k]
    BY LogType
  <2>2. \A i \in 0 .. current_id[o][k] - 1 :
          \/ transactions'[o][k][i].kind = "dependency"
          \/ transactions'[o][k][i].done
    BY <1>2 DEF Through, DoneUpTo
  <2> QED
    BY <1>2, <2>2 DEF Through, DoneUpTo
<1>3. \A o \in Owner, k \in Collection : \A j \in 0 .. current_id[o][k] :
         DoneUpTo(o, k, j) => DoneUpTo(o, k, j)'
  BY <1>1 DEF DoneUpTo
<1>4. \A o \in Owner, k \in Collection :
         current_id'[o][k] = current_id[o][k] /\ Through(o, k) => Through(o, k)'
  BY <1>2 DEF Through, DoneUpTo
<1> QED
  BY <1>3, <1>4

\* A step that keeps what owners are through with, as far as they were given up
\* or may be, keeps Idle and Checking.
LEMMA KeepsThrough ==
    ASSUME TypeOK, Idle, Checking, UNCHANGED <<lifeVars>>,
           \A o \in Owner : checked[o] > 0 => cursor'[o] = 0,
           \A o \in Owner, k \in Collection :
              (scheduled[o] \/ checked[o] > 0) /\ Through(o, k) => Through(o, k)'
    PROVE  Idle' /\ Checking'
<1>1. UNCHANGED <<present, flagged, scheduled, checked>>
  BY DEF lifeVars
<1>2. ASSUME NEW o \in Owner, scheduled[o], NEW k \in Collection PROVE Through(o, k)'
  BY <1>2 DEF Idle
<1>3. ASSUME NEW o \in Owner, checked[o] > 0, NEW k \in 1 .. checked[o]
      PROVE  Through(o, Collections[k])'
  <2>1. Collections[k] \in Collection
    BY CollectionKeys
  <2>2. Through(o, Collections[k])
    BY <1>3 DEF Checking
  <2>3. PICK c \in Collection : c = Collections[k]
    BY <2>1
  <2>4. Through(o, c)'
    BY <1>3, <2>2, <2>3
  <2> QED
    BY <2>3, <2>4 DEF Through, DoneUpTo
<1>4. Idle'
  BY <1>1, <1>2 DEF Idle, Through, DoneUpTo
<1>5. Checking'
  BY <1>1, <1>3 DEF Checking, Through, DoneUpTo
<1> QED
  BY <1>4, <1>5

\* A push goes behind what is done, to an owner that was not given up.
LEMMA PushesSerial ==
    ASSUME ~UsedInCheck, TypeOK, SerialInv, NEW t \in Owner, NEW c \in Collection, NEW e,
           Pushes(t, c, e)
    PROVE  SerialInv'
<1>1. /\ UNCHANGED <<lifeVars, cursor, epoch, first_id, poolVars>>
      /\ ~scheduled[t] /\ checked[t] = 0
      /\ current_id'[t][c] = current_id[t][c] + 1
      /\ transactions'[t][c][current_id[t][c]] = e
      /\ \A o \in Owner, k \in Collection : o # t \/ k # c =>
           current_id'[o][k] = current_id[o][k]
      /\ \A o \in Owner, k \in Collection : \A id \in 0 .. current_id[o][k] - 1 :
           transactions'[o][k][id] = transactions[o][k][id]
  BY PushesFacts
<1>2. UNCHANGED <<present, scheduled, flagged, checked, cursor, epoch>> /\ InFlight' = InFlight
  BY <1>1 DEF lifeVars, poolVars, InFlight
<1>3. /\ \A o \in Owner, k \in Collection : \A j \in 0 .. current_id[o][k] :
           DoneUpTo(o, k, j) => DoneUpTo(o, k, j)'
      /\ \A o \in Owner, k \in Collection :
           current_id'[o][k] = current_id[o][k] /\ Through(o, k) => Through(o, k)'
  BY <1>1, DoneKeeps
<1>4. DoneInOrder'
  <2> SUFFICES ASSUME NEW o \in Owner, NEW k \in Collection,
                      NEW j \in 0 .. current_id'[o][k] - 1, transactions'[o][k][j].done
               PROVE  DoneUpTo(o, k, j)'
    BY DEF DoneInOrder, DoneUpTo
  <2>1. current_id[o][k] \in Nat /\ ~e.done
    BY LogType DEF Pushes
  <2>2. j \in 0 .. current_id[o][k] - 1
    BY <1>1, <2>1
  <2>3. DoneUpTo(o, k, j)
    BY <1>1, <2>2 DEF SerialInv, DoneInOrder
  <2>4. j \in 0 .. current_id[o][k]
    BY <2>1, <2>2
  <2> QED
    BY <1>3, <2>3, <2>4
<1>5. ASSUME NEW o \in Owner, NEW k \in Collection, scheduled[o] \/ checked[o] > 0, Through(o, k)
      PROVE  Through(o, k)'
  <2>1. o # t
    BY <1>1, <1>5
  <2> QED
    BY <1>1, <1>3, <1>5, <2>1
<1>6. ASSUME NEW o \in Owner, checked[o] > 0 PROVE cursor'[o] = 0
  BY <1>2, <1>6 DEF SerialInv, Checking
<1>7. \A o \in Owner, k \in Collection :
         (scheduled[o] \/ checked[o] > 0) /\ Through(o, k) => Through(o, k)'
  BY <1>5 DEF Through, DoneUpTo
<1>8. Idle' /\ Checking'
  BY <1>1, <1>6, <1>7, KeepsThrough DEF SerialInv
<1> QED
  BY <1>2, <1>4, <1>8 DEF SerialInv, Dropped, OnlyLastStoreDangles, Alive

\* update()'s body keeps the invariant: it works on owners not given up.
LEMMA PassesSerial ==
    ASSUME TypeOK, SerialInv, NEW t \in Owner, NEW c \in Collection, NEW end,
           Passes(t, c, end)
    PROVE  SerialInv'
<1>1. /\ UNCHANGED <<lifeVars, epoch, current_id, transactions, poolVars>>
      /\ cursor'[t] = 0
      /\ \A o \in Owner : o # t => cursor'[o] = cursor[o]
  BY PassesFacts
<1>2. InFlight' = InFlight /\ UNCHANGED <<present, scheduled, flagged, checked>>
  BY <1>1 DEF InFlight, poolVars, lifeVars
<1>3. Dropped'
  BY <1>1, <1>2 DEF Dropped, SerialInv
<1>4. ASSUME NEW o \in Owner, checked[o] > 0 PROVE cursor'[o] = 0
  BY <1>1, <1>4 DEF SerialInv, Checking
<1>5. \A o \in Owner, k \in Collection : Through(o, k) => Through(o, k)'
  BY <1>1 DEF Through, DoneUpTo
<1>6. Idle' /\ Checking'
  BY <1>1, <1>4, <1>5, KeepsThrough DEF SerialInv
<1> QED
  BY <1>1, <1>2, <1>3, <1>6 DEF SerialInv, DoneInOrder, DoneUpTo, OnlyLastStoreDangles, Alive

LEMMA SubmitsSerial ==
    ASSUME TypeOK, SubmitInv, SerialInv, NEW t \in Owner, NEW c \in Collection,
           NEW end, NEW ids, NEW n, Submits(t, c, end, ids, n)
    PROVE  SerialInv'
<1>1. /\ UNCHANGED <<lifeVars, epoch, current_id, running, applied>>
      /\ \A o \in Owner, k \in Collection : \A id \in 0 .. current_id[o][k] - 1 :
           /\ transactions'[o][k][id].kind = transactions[o][k][id].kind
           /\ transactions'[o][k][id].done = transactions[o][k][id].done
      /\ n.owner = t /\ n.epoch = epoch[t]
      /\ InFlight' = InFlight \/ InFlight' = InFlight \cup {n}
      /\ cursor[t] > 0
      /\ \A o \in Owner : o # t => cursor'[o] = cursor[o]
  BY SubmitsFacts
<1>2. UNCHANGED <<present, scheduled, flagged>>
  BY <1>1 DEF lifeVars
<1>3. ~scheduled[t] /\ t \in present /\ ~(checked[t] > 0)
  BY <1>1 DEF SerialInv, Dropped, Checking
<1>4. /\ \A o \in Owner, k \in Collection : \A j \in 0 .. current_id[o][k] :
           DoneUpTo(o, k, j) => DoneUpTo(o, k, j)'
      /\ \A o \in Owner, k \in Collection : Through(o, k) => Through(o, k)'
  BY <1>1, DoneKeeps
<1>5. DoneInOrder'
  <2> SUFFICES ASSUME NEW o \in Owner, NEW k \in Collection,
                      NEW j \in 0 .. current_id[o][k] - 1, transactions'[o][k][j].done
               PROVE  DoneUpTo(o, k, j)'
    BY <1>1 DEF DoneInOrder, DoneUpTo
  <2>1. DoneUpTo(o, k, j)
    BY <1>1 DEF SerialInv, DoneInOrder
  <2>2. j \in 0 .. current_id[o][k]
    BY LogType
  <2> QED
    BY <1>4, <2>1, <2>2
<1>6. Dropped'
  BY <1>1, <1>2, <1>3 DEF SerialInv, Dropped
<1>7. ASSUME NEW o \in Owner, checked[o] > 0 PROVE cursor'[o] = 0
  <2>1. o # t
    BY <1>3, <1>7
  <2> QED
    BY <1>1, <1>7, <2>1 DEF SerialInv, Checking
<1>8. Idle' /\ Checking'
  BY <1>1, <1>4, <1>7, KeepsThrough DEF SerialInv
<1>9. OnlyLastStoreDangles'
  BY <1>1 DEF SerialInv, OnlyLastStoreDangles, Alive
<1> QED
  BY <1>5, <1>6, <1>8, <1>9 DEF SerialInv

\* The log of an owner is cleared when its batches have their last store left.
LEMMA ReinitSerial ==
    ASSUME TypeOK, SubmitInv, PoolInv, SerialInv, NEW t \in Owner, Reinit(t)
    PROVE  SerialInv'
<1>1. /\ t \notin present /\ present' = present \cup {t}
      /\ ~scheduled'[t]
      /\ \A c \in Collection : current_id'[t][c] = 0
      /\ UNCHANGED <<checked, cursor, queue, running>>
  BY DEF Reinit, TypeOK, poolVars
<1>2. InFlight' = InFlight
  BY <1>1 DEF InFlight
<1>3. scheduled[t] /\ ~(checked[t] > 0)
  BY <1>1 DEF SerialInv, Dropped, Checking
<1>4. \A o \in Owner : o # t =>
        /\ epoch'[o] = epoch[o]
        /\ current_id'[o] = current_id[o]
        /\ transactions'[o] = transactions[o]
        /\ flagged'[o] = flagged[o]
        /\ scheduled'[o] = scheduled[o]
  BY DEF Reinit, TypeOK
<1>5. DoneInOrder'
  <2> SUFFICES ASSUME NEW o \in Owner, NEW k \in Collection,
                      NEW j \in 0 .. current_id'[o][k] - 1, transactions'[o][k][j].done
               PROVE  DoneUpTo(o, k, j)'
    BY DEF DoneInOrder, DoneUpTo
  <2>1. o # t
    BY <1>1
  <2> QED
    BY <1>4, <2>1 DEF SerialInv, DoneInOrder, DoneUpTo
<1>6. Dropped'
  BY <1>1, <1>4 DEF SerialInv, Dropped
<1>7. Idle'
  BY <1>1, <1>4 DEF SerialInv, Idle, Through, DoneUpTo
<1>8. Checking'
  <2> SUFFICES ASSUME NEW o \in Owner, checked[o] > 0
               PROVE  /\ o \in present' /\ flagged'[o] /\ ~scheduled'[o] /\ cursor[o] = 0
                      /\ \A k \in 1 .. checked[o] : Through(o, Collections[k])'
    BY <1>1 DEF Checking, Through, DoneUpTo
  <2>1. o # t
    BY <1>3
  <2>2. /\ o \in present /\ flagged[o] /\ ~scheduled[o] /\ cursor[o] = 0
        /\ \A k \in 1 .. checked[o] : Through(o, Collections[k])
    BY DEF SerialInv, Checking
  <2> QED
    BY <1>1, <1>4, <2>1, <2>2 DEF Through, DoneUpTo
<1>9. OnlyLastStoreDangles'
  <2> SUFFICES ASSUME NEW b \in InFlight, b.epoch # epoch'[b.owner]
               PROVE  b.left = {} /\ b.undone = {} /\ \A i, j \in b.ids : i = j
    BY <1>2 DEF OnlyLastStoreDangles, Alive
  <2>1. b.owner \in Owner /\ b.collection \in Collection
    BY InFlightType DEF Batch
  <2>2. CASE ~Alive(b)
    BY <2>2 DEF SerialInv, OnlyLastStoreDangles
  <2>3. CASE Alive(b)
    <3>1. b.owner = t
      BY <1>4, <2>1, <2>3 DEF Alive
    <3>2. Through(b.owner, b.collection)
      BY <1>3, <2>1, <3>1 DEF SerialInv, Idle
    <3> QED
      BY <2>3, <3>2, ThroughIsLast
  <2> QED
    BY <2>2, <2>3
<1> QED
  BY <1>5, <1>6, <1>7, <1>8, <1>9 DEF SerialInv

\* Flags and the cursor: update() gives up only owners that are through with
\* all of their logs.
LEMMA MarksSerial ==
    ASSUME ~UsedInCheck, TypeOK, SerialInv, NEW t \in Owner, Marks(t)
    PROVE  SerialInv'
<1>1. /\ UNCHANGED <<epoch, current_id, transactions, queue, running>>
      /\ InFlight' = InFlight
  BY MarksFacts DEF logVars, poolVars, InFlight
<1>2. DoneInOrder' /\ OnlyLastStoreDangles'
  BY <1>1 DEF SerialInv, DoneInOrder, DoneUpTo, OnlyLastStoreDangles, Alive
<1>3. \A o \in Owner : \A k : Through(o, k)' <=> Through(o, k)
  BY <1>1 DEF Through, DoneUpTo
<1>4. ASSUME \A o \in Owner :
               /\ o \notin present' => scheduled'[o]
               /\ scheduled'[o] => flagged'[o] /\ cursor'[o] = 0
               /\ scheduled'[o] => scheduled[o] \/ \A c \in Collection : Through(o, c)
               /\ checked'[o] > 0 =>
                    /\ o \in present' /\ flagged'[o] /\ ~scheduled'[o] /\ cursor'[o] = 0
                    /\ \A k \in 1 .. checked'[o] : Through(o, Collections[k])
      PROVE  SerialInv'
  <2>1. Dropped'
    BY <1>4 DEF Dropped
  <2>2. Idle'
    BY <1>3, <1>4 DEF SerialInv, Idle
  <2>3. Checking'
    BY <1>3, <1>4 DEF Checking
  <2> QED
    BY <1>2, <2>1, <2>2, <2>3 DEF SerialInv
<1>5. \A o \in Owner :
        /\ o \notin present => scheduled[o]
        /\ scheduled[o] => flagged[o] /\ cursor[o] = 0
        /\ checked[o] > 0 =>
             /\ o \in present /\ flagged[o] /\ ~scheduled[o] /\ cursor[o] = 0
             /\ \A k \in 1 .. checked[o] : Through(o, Collections[k])
  BY DEF SerialInv, Dropped, Checking
<1>6. CASE FlagDeletion(t)
  <2>1. /\ UNCHANGED <<present, scheduled, checked, cursor>>
        /\ \A o \in Owner : flagged[o] => flagged'[o]
    BY <1>6 DEF FlagDeletion, TypeOK
  <2> QED
    BY <1>4, <1>5, <2>1
<1>7. CASE UnflagDeletion(t)
  <2>1. Unchecked(t) /\ t \in present
    BY <1>7 DEF UnflagDeletion
  <2>2. checked[t] = 0
    BY <2>1 DEF Unchecked
  <2>3. /\ UNCHANGED <<present, checked, cursor>> /\ ~scheduled'[t]
        /\ \A o \in Owner : o # t => /\ scheduled'[o] = scheduled[o]
                                     /\ flagged'[o] = flagged[o]
    BY <1>7 DEF UnflagDeletion, TypeOK
  <2> QED
    BY <1>4, <1>5, <2>1, <2>2, <2>3
<1>8. CASE Remove(t)
  <2>1. /\ UNCHANGED <<flagged, scheduled, checked, cursor>>
        /\ present' = present \ {t} /\ scheduled[t]
    BY <1>8 DEF Remove
  <2> QED
    BY <1>4, <1>5, <2>1
<1>9. Checks(t) => t \in present /\ flagged[t] /\ ~scheduled[t] /\ cursor[t] = 0
  BY <1>5 DEF Checks, Calls
<1>10. /\ Len(Collections) \in Nat
       /\ checked[t] \in Nat /\ checked[t] <= Len(Collections)
       /\ \A k \in 1 .. Len(Collections) : Collections[k] \in Collection
       /\ \A c \in Collection : \E k \in 1 .. Len(Collections) : c = Collections[k]
  BY CollectionKeys
<1>11. ASSUME NEW k \in 1 .. checked[t] PROVE Through(t, Collections[k])
  BY <1>5, <1>10, <1>11
<1>12. CASE CheckCollection(t)
  <2>1. /\ Checks(t) /\ checked[t] + 1 < Len(Collections)
        /\ LogDone(t, Collections[checked[t] + 1])
        /\ UNCHANGED <<present, flagged, scheduled, cursor>>
    BY <1>12 DEF CheckCollection
  <2>2. checked'[t] = checked[t] + 1 /\ \A o \in Owner : o # t => checked'[o] = checked[o]
    BY <1>12 DEF CheckCollection, TypeOK
  <2>3. Collections[checked[t] + 1] \in Collection
    BY <1>10, <2>1
  <2>4. Through(t, Collections[checked[t] + 1])
    BY <2>1, <2>3, LogDoneThrough DEF SerialInv
  <2>5. \A k \in 1 .. checked'[t] : k \in 1 .. checked[t] \/ k = checked[t] + 1
    BY <1>10, <2>2
  <2>6. \A k \in 1 .. checked'[t] : Through(t, Collections[k])
    BY <1>11, <2>4, <2>5
  <2> QED
    BY <1>4, <1>5, <1>9, <2>1, <2>2, <2>6
<1>13. CASE UpdateSchedules(t)
  <2>1. /\ Checks(t)
        /\ \A k \in checked[t] + 1 .. Len(Collections) : LogDone(t, Collections[k])
        /\ UNCHANGED <<present, flagged, cursor>>
    BY <1>13 DEF UpdateSchedules
  <2>2. /\ checked'[t] = 0 /\ scheduled'[t]
        /\ \A o \in Owner : o # t => /\ checked'[o] = checked[o]
                                     /\ scheduled'[o] = scheduled[o]
    BY <1>13 DEF UpdateSchedules, TypeOK
  <2>3. ASSUME NEW c \in Collection PROVE Through(t, c)
    <3>1. PICK k \in 1 .. Len(Collections) : c = Collections[k]
      BY <1>10
    <3>2. CASE k \in 1 .. checked[t]
      BY <1>11, <3>1, <3>2
    <3>3. CASE k \in checked[t] + 1 .. Len(Collections)
      BY <2>1, <3>1, <3>3, LogDoneThrough DEF SerialInv
    <3> QED
      BY <1>10, <3>2, <3>3
  <2> QED
    BY <1>4, <1>5, <1>9, <2>1, <2>2, <2>3
<1>14. ASSUME GoesOn(t), UNCHANGED <<present, flagged, scheduled>>,
              checked' = [checked EXCEPT ![t] = 0],
              \A o \in Owner : o # t => cursor'[o] = cursor[o]
       PROVE  SerialInv'
  <2>1. t \in present /\ ~scheduled[t]
    BY <1>5, <1>9, <1>14 DEF GoesOn, Calls
  <2>2. checked'[t] = 0 /\ \A o \in Owner : o # t => checked'[o] = checked[o]
    BY <1>14 DEF TypeOK
  <2> QED
    BY <1>4, <1>5, <1>14, <2>1, <2>2
<1>15. ASSUME NEW d \in Diffs, UpdateIdle(t, d) PROVE SerialInv'
  BY <1>14, <1>15 DEF UpdateIdle
<1>16. ASSUME NEW d \in Diffs, UpdateStart(t, d) PROVE SerialInv'
  <2>1. \A o \in Owner : o # t => cursor'[o] = cursor[o]
    BY <1>16 DEF UpdateStart, TypeOK
  <2> QED
    BY <1>14, <1>16, <2>1 DEF UpdateStart
<1>17. CASE SkipCollection(t)
  <2>1. cursor[t] > 0 /\ UNCHANGED <<present, flagged, scheduled, checked>>
    BY <1>17 DEF SkipCollection, lifeVars
  <2>2. \A o \in Owner : o # t => cursor'[o] = cursor[o]
    BY <1>17 DEF SkipCollection, TypeOK
  <2>3. ~scheduled[t] /\ ~(checked[t] > 0)
    BY <1>5, <2>1
  <2> QED
    BY <1>4, <1>5, <2>1, <2>2, <2>3
<1> QED
  BY <1>6, <1>7, <1>8, <1>12, <1>13, <1>15, <1>16, <1>17 DEF Marks, UpdateHead

\* The thread flags the first entry of a log that is not done yet.
LEMMA RunsSerial ==
    ASSUME TypeOK, SubmitInv, NoneForgotten, PoolInv, SerialInv,
           NEW b, NEW s, NEW ran, NEW ids, NEW ended, Runs(b, s, ran, ids, ended)
    PROVE  SerialInv'
<1>1. /\ UNCHANGED <<lifeVars, cursor, epoch, first_id, current_id, queue>>
      /\ b \in InFlight
      /\ b.owner \in Owner /\ b.collection \in Collection
      /\ b.ids \subseteq Nat /\ b.left \subseteq b.undone /\ b.undone \subseteq b.ids
      /\ ids \subseteq b.undone /\ (ids # {} => Alive(b))
      /\ \A o \in Owner, k \in Collection : \A id \in 0 .. current_id[o][k] - 1 :
           /\ transactions'[o][k][id].kind = transactions[o][k][id].kind
           /\ transactions'[o][k][id].done <=>
                \/ transactions[o][k][id].done
                \/ o = b.owner /\ k = b.collection /\ id \in ids
      /\ s.owner = b.owner /\ s.epoch = b.epoch
      /\ s.ids \subseteq b.ids /\ s.left \subseteq b.left /\ s.undone = b.undone \ ids
      /\ \A a \in InFlight' : (a \in InFlight /\ a # b) \/ (~ended /\ a = s)
  BY RunsFacts
<1>2. b \in running /\ \A i \in ids, j \in b.ids : i <= j
  BY DEF Runs, Executes
<1>3. /\ \A o \in Owner, k \in Collection : \A j \in 0 .. current_id[o][k] :
           DoneUpTo(o, k, j) => DoneUpTo(o, k, j)'
      /\ \A o \in Owner, k \in Collection : Through(o, k) => Through(o, k)'
  BY <1>1, DoneKeeps
<1>4. ASSUME NEW j \in ids, j \in 0 .. current_id[b.owner][b.collection] - 1
      PROVE  DoneUpTo(b.owner, b.collection, j)'
  <2> SUFFICES ASSUME NEW i \in 0 .. j - 1
               PROVE  \/ transactions'[b.owner][b.collection][i].kind = "dependency"
                      \/ transactions'[b.owner][b.collection][i].done
    BY DEF DoneUpTo
  <2>1. i \in 0 .. current_id[b.owner][b.collection] - 1 /\ j \in Nat /\ j \in b.ids
    BY <1>1, <1>4, LogType
  <2>2. \/ transactions[b.owner][b.collection][i].kind = "dependency"
        \/ transactions[b.owner][b.collection][i].done
        \/ i \in b.undone
    BY <1>1, <1>2, <2>1, BeforeRunning
  <2>3. i \notin b.undone
    <3>1. i \in b.ids => j <= i
      BY <1>2
    <3> QED
      BY <1>1, <2>1, <3>1
  <2> QED
    BY <1>1, <2>1, <2>2, <2>3
<1>5. DoneInOrder'
  <2> SUFFICES ASSUME NEW o \in Owner, NEW k \in Collection,
                      NEW j \in 0 .. current_id[o][k] - 1, transactions'[o][k][j].done
               PROVE  DoneUpTo(o, k, j)'
    BY <1>1 DEF DoneInOrder, DoneUpTo
  <2>1. CASE transactions[o][k][j].done
    <3>1. DoneUpTo(o, k, j) /\ j \in 0 .. current_id[o][k]
      BY <2>1, LogType DEF SerialInv, DoneInOrder
    <3> QED
      BY <1>3, <3>1
  <2>2. CASE o = b.owner /\ k = b.collection /\ j \in ids
    BY <1>4, <2>2
  <2> QED
    BY <1>1, <2>1, <2>2
<1>6. Dropped'
  BY <1>1 DEF SerialInv, Dropped, lifeVars
<1>7. ASSUME NEW o \in Owner, checked[o] > 0 PROVE cursor'[o] = 0
  BY <1>1, <1>7 DEF SerialInv, Checking
<1>8. Idle' /\ Checking'
  BY <1>1, <1>3, <1>7, KeepsThrough DEF SerialInv
<1>9. OnlyLastStoreDangles'
  <2> SUFFICES ASSUME NEW a \in InFlight', a.epoch # epoch[a.owner]
               PROVE  a.left = {} /\ a.undone = {} /\ \A i, j \in a.ids : i = j
    BY <1>1 DEF OnlyLastStoreDangles, Alive
  <2>1. CASE a \in InFlight
    BY <2>1 DEF SerialInv, OnlyLastStoreDangles, Alive
  <2>2. CASE a = s
    <3>1. ~Alive(b)
      BY <1>1, <2>2 DEF Alive
    <3>2. b.left = {} /\ b.undone = {} /\ \A i, j \in b.ids : i = j
      BY <1>1, <3>1 DEF SerialInv, OnlyLastStoreDangles
    <3> QED
      BY <1>1, <2>2, <3>2
  <2> QED
    BY <1>1, <2>1, <2>2
<1> QED
  BY <1>5, <1>6, <1>8, <1>9 DEF SerialInv

\* With one database thread, every step keeps the logs done in order.
LEMMA NextSerial ==
    ASSUME DbThreads = 1, ~UsedInCheck, TypeOK, SubmitInv, NoneForgotten, PoolInv,
           SerialInv, [Next]_vars
    PROVE  SerialInv'
<1>1. ASSUME InFlight' = InFlight, UNCHANGED <<lifeVars, logVars, cursor>> PROVE SerialInv'
  <2>1. UNCHANGED <<present, flagged, scheduled, checked, epoch, current_id, transactions, cursor>>
    BY <1>1 DEF lifeVars, logVars
  <2>2. DoneInOrder' /\ Dropped' /\ Idle'
    BY <2>1 DEF SerialInv, DoneInOrder, DoneUpTo, Dropped, Idle, Through
  <2>3. Checking' /\ OnlyLastStoreDangles'
    BY <1>1, <2>1 DEF SerialInv, DoneUpTo, Through, Checking, OnlyLastStoreDangles, Alive
  <2> QED
    BY <2>2, <2>3 DEF SerialInv
<1>2. ASSUME StartBatch PROVE SerialInv'
  BY <1>1, <1>2, StartSubmit DEF StartBatch
<1>3. ASSUME UNCHANGED vars PROVE SerialInv'
  BY <1>1, <1>3 DEF vars, InFlight, lifeVars, logVars
<1> QED
  BY <1>2, <1>3, NextSteps, PushesSerial, PassesSerial, SubmitsSerial, ReinitSerial,
     MarksSerial, RunsSerial

\* The invariants together.
LEMMA SerialInvariant ==
    ASSUME DbThreads = 1, ~UsedInCheck
    PROVE  Spec => [](TypeOK /\ SubmitInv /\ NoneForgotten /\ PoolInv /\ SerialInv)
<1>1. TypeOK /\ SubmitInv /\ NoneForgotten /\ PoolInv /\ SerialInv /\ [Next]_vars
        => PoolInv' /\ SerialInv'
  BY NextPool, NextSerial
<1> QED
  BY <1>1, InitPool, InitSerial, TypeCorrect, SubmitInvariant, NoneIsForgotten, PTL
     DEF Spec

\* With one database thread, and owners that nobody uses while update() looks
\* whether to give them up, update() reports an owner as deletable only when
\* every operation in its logs is done, although can_delete looks at the last
\* entry of each log only, and at one log after the other: the entries of a log
\* are done in their order.
THEOREM DeletedOnlyWhenDone ==
    ASSUME DbThreads = 1, ~UsedInCheck
    PROVE  Spec => []DeletedWhenDone
<1>1. TypeOK /\ SerialInv => DeletedWhenDone
  <2> SUFFICES ASSUME TypeOK, SerialInv, NEW t \in Owner, scheduled[t],
                      NEW c \in Collection, NEW id \in 0 .. MaxSlots - 1,
                      id < current_id[t][c]
               PROVE  \/ transactions[t][c][id].kind = "dependency"
                      \/ transactions[t][c][id].done
    BY DEF DeletedWhenDone
  <2>1. DoneUpTo(t, c, current_id[t][c])
    BY DEF SerialInv, Idle, Through
  <2>2. id \in 0 .. current_id[t][c] - 1
    BY LogType
  <2> QED
    BY <2>1, <2>2 DEF DoneUpTo
<1> QED
  BY <1>1, SerialInvariant, PTL

\* Under the same assumptions, a batch that outlives the log it points to, for
\* init() has cleared it, was executed and flagged as done, and has nothing left
\* but to store pending = false into its last entry.
THEOREM OnlyLastStoresDangle ==
    ASSUME DbThreads = 1, ~UsedInCheck
    PROVE  Spec => []OnlyLastStoreDangles
<1>1. SerialInv => OnlyLastStoreDangles
  BY DEF SerialInv
<1> QED
  BY <1>1, SerialInvariant, PTL

----------------------------------------------------------------------------
(***************************************************************************)
(* Dependencies: what is done was carried out, and an owner goes away only *)
(* when it is done; so a dependency on an operation that is done, or whose *)
(* owner is gone or used again, is one on an operation that was carried    *)
(* out.                                                                    *)
(***************************************************************************)

DoneIsApplied ==
    \A t \in Owner, c \in Collection : \A id \in 0 .. current_id[t][c] - 1 :
        transactions[t][c][id].done => Current(t, c, id) \in applied

LeftIsLeft ==
    \A b \in InFlight : \A id \in b.ids : Op(b, id) \in applied <=> id \notin b.left

AppliedIsSent ==
    \A o \in applied :
        /\ o \in Operation
        /\ o.epoch <= epoch[o.owner]
        /\ o.epoch = epoch[o.owner] => o.id < first_id[o.owner][o.collection]

AppliedInv == DoneIsApplied /\ LeftIsLeft /\ AppliedIsSent

\* The operation of a dependency in collection c was carried out, or is in the
\* present log of its owner.
Known(c, on) ==
    /\ on \in Operation
    /\ on.collection = c
    /\ on.epoch <= epoch[on.owner]
    /\ \/ on \in applied
       \/ /\ on.epoch = epoch[on.owner]
          /\ on.id < current_id[on.owner][c]
          /\ transactions[on.owner][c][on.id].kind # "dependency"

DependenciesKnown ==
    \A t \in Owner, c \in Collection : \A i \in 0 .. current_id[t][c] - 1 :
        transactions[t][c][i].kind = "dependency" => Known(c, transactions[t][c][i].on)

DependencyInv == AppliedInv /\ DependenciesKnown /\ DependencyRespected

\* Nothing is done, carried out or waited for in the initial state.
LEMMA InitDependency == Init => DependencyInv
<1> SUFFICES ASSUME Init PROVE DependencyInv
  OBVIOUS
<1>1. InFlight = {} /\ applied = {}
  BY DEF Init, InFlight
<1>2. \A t \in Owner, c \in Collection : current_id[t][c] = 0 /\ first_id[t][c] = 0
  BY DEF Init
<1> QED
  BY <1>1, <1>2 DEF DependencyInv, AppliedInv, DoneIsApplied, LeftIsLeft, AppliedIsSent,
                    DependenciesKnown, DependencyRespected

\* What was pushed is neither done nor sent.
LEMMA PushesApplied ==
    ASSUME TypeOK, AppliedInv, NEW t \in Owner, NEW c \in Collection, NEW e,
           Pushes(t, c, e)
    PROVE  AppliedInv'
<1>1. /\ UNCHANGED <<epoch, first_id, poolVars>>
      /\ current_id'[t][c] = current_id[t][c] + 1
      /\ transactions'[t][c][current_id[t][c]] = e
      /\ \A o \in Owner, k \in Collection : o # t \/ k # c =>
           current_id'[o][k] = current_id[o][k]
      /\ \A o \in Owner, k \in Collection : \A id \in 0 .. current_id[o][k] - 1 :
           transactions'[o][k][id] = transactions[o][k][id]
  BY PushesFacts
<1>2. UNCHANGED <<epoch, first_id, applied>> /\ InFlight' = InFlight
  BY <1>1 DEF poolVars, InFlight
<1>3. DoneIsApplied'
  <2> SUFFICES ASSUME NEW o \in Owner, NEW k \in Collection,
                      NEW id \in 0 .. current_id'[o][k] - 1, transactions'[o][k][id].done
               PROVE  Current(o, k, id)' \in applied
    BY <1>2 DEF DoneIsApplied
  <2>1. current_id[o][k] \in Nat /\ ~e.done
    BY LogType DEF Pushes
  <2>2. id \in 0 .. current_id[o][k] - 1
    BY <1>1, <2>1
  <2> QED
    BY <1>1, <1>2, <2>2 DEF AppliedInv, DoneIsApplied, Current
<1> QED
  BY <1>2, <1>3 DEF AppliedInv, LeftIsLeft, Op, AppliedIsSent

LEMMA PassesApplied ==
    ASSUME TypeOK, AppliedInv, NEW t \in Owner, NEW c \in Collection, NEW end,
           Passes(t, c, end)
    PROVE  AppliedInv'
<1>1. /\ UNCHANGED <<epoch, current_id, transactions, applied>> /\ InFlight' = InFlight
      /\ first_id[t][c] <= end /\ end \in Nat
      /\ first_id'[t][c] = end
      /\ \A o \in Owner, k \in Collection : o # t \/ k # c =>
           first_id'[o][k] = first_id[o][k]
  BY PassesFacts DEF poolVars, InFlight
<1>2. AppliedIsSent'
  <2> SUFFICES ASSUME NEW o \in applied, o.epoch = epoch[o.owner]
               PROVE  o.id < first_id'[o.owner][o.collection]
    BY <1>1 DEF AppliedInv, AppliedIsSent
  <2>1. /\ o.owner \in Owner /\ o.collection \in Collection /\ o.id \in Nat
        /\ o.id < first_id[o.owner][o.collection]
    BY DEF AppliedInv, AppliedIsSent, Operation
  <2>2. first_id[o.owner][o.collection] \in Nat
    BY <2>1, LogType
  <2> QED
    BY <1>1, <2>1, <2>2
<1> QED
  BY <1>1, <1>2 DEF AppliedInv, DoneIsApplied, Current, LeftIsLeft, Op

\* What is sent comes from first_id on, where nothing was carried out.
LEMMA SubmitsApplied ==
    ASSUME TypeOK, SubmitInv, AppliedInv, NEW t \in Owner, NEW c \in Collection,
           NEW end, NEW ids, NEW n, Submits(t, c, end, ids, n)
    PROVE  AppliedInv'
<1>1. /\ UNCHANGED <<epoch, current_id, applied>>
      /\ end \in Nat /\ first_id[t][c] <= end
      /\ ids \subseteq Nat
      /\ \A id \in ids : first_id[t][c] <= id
      /\ first_id'[t][c] = end
      /\ \A o \in Owner, k \in Collection : o # t \/ k # c =>
           first_id'[o][k] = first_id[o][k]
      /\ \A o \in Owner, k \in Collection : \A id \in 0 .. current_id[o][k] - 1 :
           transactions'[o][k][id].done = transactions[o][k][id].done
      /\ n.owner = t /\ n.epoch = epoch[t] /\ n.collection = c
      /\ n.ids = ids /\ n.left = ids
      /\ InFlight' = InFlight \/ InFlight' = InFlight \cup {n}
  BY SubmitsFacts
<1>2. AppliedIsSent'
  <2> SUFFICES ASSUME NEW o \in applied, o.epoch = epoch[o.owner]
               PROVE  o.id < first_id'[o.owner][o.collection]
    BY <1>1 DEF AppliedInv, AppliedIsSent
  <2>1. /\ o.owner \in Owner /\ o.collection \in Collection /\ o.id \in Nat
        /\ o.id < first_id[o.owner][o.collection]
    BY DEF AppliedInv, AppliedIsSent, Operation
  <2>2. first_id[o.owner][o.collection] \in Nat
    BY <2>1, LogType
  <2> QED
    BY <1>1, <2>1, <2>2
<1>3. DoneIsApplied'
  BY <1>1 DEF AppliedInv, DoneIsApplied, Current
<1>4. ASSUME NEW id \in ids PROVE Op(n, id) \notin applied
  <2>1. /\ Op(n, id).owner = t /\ Op(n, id).epoch = epoch[t]
        /\ Op(n, id).collection = c /\ Op(n, id).id = id
    BY <1>1 DEF Op
  <2>2. first_id[t][c] \in Nat /\ id \in Nat /\ first_id[t][c] <= id
    BY <1>1, LogType
  <2> QED
    BY <2>1, <2>2 DEF AppliedInv, AppliedIsSent
<1>5. LeftIsLeft'
  BY <1>1, <1>4 DEF AppliedInv, LeftIsLeft, Op
<1> QED
  BY <1>2, <1>3, <1>5 DEF AppliedInv

\* What was carried out of a cleared log is of an earlier epoch.
LEMMA ReinitApplied ==
    ASSUME TypeOK, AppliedInv, NEW t \in Owner, Reinit(t)
    PROVE  AppliedInv'
<1>1. /\ epoch[t] \in Nat /\ epoch'[t] = epoch[t] + 1
      /\ \A c \in Collection : current_id'[t][c] = 0
      /\ UNCHANGED <<queue, running, applied>>
  BY DEF Reinit, TypeOK, poolVars
<1>2. InFlight' = InFlight
  BY <1>1 DEF InFlight
<1>3. \A o \in Owner : o # t =>
        /\ epoch'[o] = epoch[o]
        /\ first_id'[o] = first_id[o]
        /\ current_id'[o] = current_id[o]
        /\ transactions'[o] = transactions[o]
  BY DEF Reinit, TypeOK
<1>4. DoneIsApplied'
  <2> SUFFICES ASSUME NEW o \in Owner, NEW k \in Collection,
                      NEW id \in 0 .. current_id'[o][k] - 1, transactions'[o][k][id].done
               PROVE  Current(o, k, id)' \in applied
    BY <1>1 DEF DoneIsApplied
  <2>1. o # t
    BY <1>1
  <2> QED
    BY <1>3, <2>1 DEF AppliedInv, DoneIsApplied, Current
<1>5. AppliedIsSent'
  <2> SUFFICES ASSUME NEW o \in applied
               PROVE  /\ o \in Operation
                      /\ o.epoch <= epoch'[o.owner]
                      /\ o.epoch = epoch'[o.owner] =>
                            o.id < first_id'[o.owner][o.collection]
    BY <1>1 DEF AppliedIsSent
  <2>1. /\ o \in Operation /\ o.owner \in Owner /\ o.epoch \in Nat
        /\ o.epoch <= epoch[o.owner]
        /\ o.epoch = epoch[o.owner] => o.id < first_id[o.owner][o.collection]
    BY DEF AppliedInv, AppliedIsSent, Operation
  <2>2. CASE o.owner = t
    BY <1>1, <2>1, <2>2
  <2>3. CASE o.owner # t
    BY <1>3, <2>1, <2>3
  <2> QED
    BY <2>2, <2>3
<1> QED
  BY <1>1, <1>2, <1>4, <1>5 DEF AppliedInv, LeftIsLeft, Op

\* A batch flags what it has carried out; no other batch holds the same.
LEMMA RunsApplied ==
    ASSUME ~BulkMayFail, TypeOK, SubmitInv, AppliedInv,
           NEW b, NEW s, NEW ran, NEW ids, NEW ended, Runs(b, s, ran, ids, ended)
    PROVE  AppliedInv'
<1>1. /\ UNCHANGED <<epoch, first_id, current_id>>
      /\ b \in Batch /\ b \in InFlight /\ BatchInv(b)
      /\ b.owner \in Owner /\ b.collection \in Collection
      /\ b.ids \subseteq Nat /\ b.left \subseteq b.undone /\ b.undone \subseteq b.ids
      /\ ids \subseteq b.undone /\ (ids # {} => Alive(b))
      /\ \A o \in Owner, k \in Collection : \A id \in 0 .. current_id[o][k] - 1 :
           transactions'[o][k][id].done <=>
                \/ transactions[o][k][id].done
                \/ o = b.owner /\ k = b.collection /\ id \in ids
      /\ s.owner = b.owner /\ s.epoch = b.epoch /\ s.collection = b.collection
      /\ s.ids \subseteq b.ids
      /\ \A a \in InFlight' : (a \in InFlight /\ a # b) \/ (~ended /\ a = s)
  BY RunsFacts
<1>2. /\ ran \subseteq b.left /\ (ran # {} => Alive(b))
      /\ s.left = b.left \ ran
      /\ ids \cap b.left = {}
      /\ applied' = applied \cup {Op(b, id) : id \in ran}
  BY DEF Runs
<1>3. \A id \in ids : Op(b, id) \in applied'
  BY <1>1, <1>2 DEF AppliedInv, LeftIsLeft
<1>4. DoneIsApplied'
  <2> SUFFICES ASSUME NEW o \in Owner, NEW k \in Collection,
                      NEW id \in 0 .. current_id[o][k] - 1, transactions'[o][k][id].done
               PROVE  Current(o, k, id)' \in applied'
    BY <1>1 DEF DoneIsApplied
  <2>1. Current(o, k, id)' = Current(o, k, id)
    BY <1>1 DEF Current
  <2>2. CASE transactions[o][k][id].done
    BY <1>2, <2>1, <2>2 DEF AppliedInv, DoneIsApplied
  <2>3. CASE o = b.owner /\ k = b.collection /\ id \in ids
    <3>1. Current(o, k, id) = Op(b, id)
      BY <1>1, <2>3 DEF Current, Op, Alive
    <3> QED
      BY <1>3, <2>1, <2>3, <3>1
  <2> QED
    BY <1>1, <2>2, <2>3
<1>5. LeftIsLeft'
  <2> SUFFICES ASSUME NEW a \in InFlight', NEW id \in a.ids
               PROVE  Op(a, id) \in applied' <=> id \notin a.left
    BY DEF LeftIsLeft, Op
  <2>1. CASE a \in InFlight /\ a # b
    <3>1. ASSUME NEW i \in ran, Op(a, id) = Op(b, i) PROVE FALSE
      <4>1. SameLog(a, b) /\ id = i
        BY <3>1 DEF Op, SameLog
      <4>2. a.ids \cap b.ids = {}
        BY <1>1, <2>1, <4>1 DEF SubmitInv, Apart
      <4> QED
        BY <1>1, <1>2, <4>1, <4>2
    <3>2. Op(a, id) \in applied <=> id \notin a.left
      BY <2>1 DEF AppliedInv, LeftIsLeft
    <3> QED
      BY <1>2, <3>1, <3>2
  <2>2. CASE a = s
    <3>1. Op(a, id) = Op(b, id) /\ id \in b.ids
      BY <1>1, <2>2 DEF Op
    <3>2. Op(b, id) \in applied <=> id \notin b.left
      BY <1>1, <3>1 DEF AppliedInv, LeftIsLeft
    <3>3. \A i \in ran : Op(b, i) = Op(b, id) => i = id
      BY DEF Op
    <3>4. Op(b, id) \in applied' <=> id \notin s.left
      BY <1>2, <3>2, <3>3
    <3> QED
      BY <2>2, <3>1, <3>4
  <2> QED
    BY <1>1, <2>1, <2>2
<1>6. AppliedIsSent'
  <2> SUFFICES ASSUME NEW o \in applied'
               PROVE  /\ o \in Operation
                      /\ o.epoch <= epoch[o.owner]
                      /\ o.epoch = epoch[o.owner] =>
                            o.id < first_id[o.owner][o.collection]
    BY <1>1 DEF AppliedIsSent
  <2>1. CASE o \in applied
    BY <2>1 DEF AppliedInv, AppliedIsSent
  <2>2. ASSUME NEW id \in ran, o = Op(b, id)
        PROVE  /\ o \in Operation
               /\ o.epoch <= epoch[o.owner]
               /\ o.id < first_id[o.owner][o.collection]
    <3>1. /\ o.owner = b.owner /\ o.epoch = b.epoch
          /\ o.collection = b.collection /\ o.id = id
      BY <2>2 DEF Op
    <3>2. o \in Operation
      BY <1>1, <1>2, <2>2 DEF Op, Operation, Batch
    <3>3. id < first_id[b.owner][b.collection] /\ b.epoch <= epoch[b.owner]
      BY <1>1, <1>2 DEF BatchInv
    <3> QED
      BY <3>1, <3>2, <3>3
  <2> QED
    BY <1>2, <2>1, <2>2
<1> QED
  BY <1>4, <1>5, <1>6 DEF AppliedInv

\* What is known stays known where logs only grow.
LEMMA KnownKeeps ==
    ASSUME TypeOK, NEW c \in Collection, NEW on, Known(c, on), UNCHANGED epoch,
           applied \subseteq applied',
           current_id[on.owner][c] <= current_id'[on.owner][c],
           current_id'[on.owner][c] \in Nat,
           \A id \in 0 .. current_id[on.owner][c] - 1 :
              transactions'[on.owner][c][id].kind = transactions[on.owner][c][id].kind
    PROVE  Known(c, on)'
<1>1. on.owner \in Owner /\ on.id \in Nat
  BY DEF Known, Operation
<1>2. current_id[on.owner][c] \in Nat
  BY <1>1, LogType
<1>3. on.id < current_id[on.owner][c] => on.id \in 0 .. current_id[on.owner][c] - 1
  BY <1>1, <1>2
<1> QED
  BY <1>1, <1>2, <1>3 DEF Known

\* What an owner that was given up is waited for was carried out.
LEMMA GivenUpIsApplied ==
    ASSUME TypeOK, SerialInv, AppliedInv, NEW c \in Collection, NEW on, Known(c, on),
           scheduled[on.owner]
    PROVE  on \in applied
<1> SUFFICES ASSUME on \notin applied PROVE FALSE
  OBVIOUS
<1>1. /\ on \in Operation /\ on.owner \in Owner /\ on.id \in Nat
      /\ on.collection = c
      /\ on.epoch = epoch[on.owner]
      /\ on.id < current_id[on.owner][c]
      /\ transactions[on.owner][c][on.id].kind # "dependency"
  BY DEF Known, Operation
<1>2. on.id \in 0 .. current_id[on.owner][c] - 1
  BY <1>1, LogType
<1>3. transactions[on.owner][c][on.id].done
  BY <1>1, <1>2 DEF SerialInv, Idle, Through, DoneUpTo
<1>4. Current(on.owner, c, on.id) = on
  BY <1>1 DEF Current, Operation
<1> QED
  BY <1>1, <1>2, <1>3, <1>4 DEF AppliedInv, DoneIsApplied

\* A dependency that is met is one on an operation that was carried out.
LEMMA MetIsApplied ==
    ASSUME TypeOK, SerialInv, AppliedInv, NEW c \in Collection, NEW e,
           Known(c, e.on), Met(c, e)
    PROVE  e.on \in applied
<1> DEFINE on == e.on
<1> SUFFICES ASSUME on \notin applied PROVE FALSE
  OBVIOUS
<1>1. /\ on \in Operation /\ on.owner \in Owner /\ on.id \in Nat
      /\ on.collection = c
      /\ on.epoch = epoch[on.owner]
      /\ on.id < current_id[on.owner][c]
  BY DEF Known, Operation
<1>2. on.id \in 0 .. current_id[on.owner][c] - 1
  BY <1>1, LogType
<1>3. on.id \in DOMAIN transactions[on.owner][c]
  BY <1>1, <1>2 DEF TypeOK
<1>4. on.owner \in present
  BY <1>1, GivenUpIsApplied DEF SerialInv, Dropped
<1>5. transactions[on.owner][c][on.id].done
  BY <1>3, <1>4 DEF Met
<1>6. Current(on.owner, c, on.id) = on
  BY <1>1 DEF Current, Operation
<1> QED
  BY <1>1, <1>2, <1>5, <1>6 DEF AppliedInv, DoneIsApplied

\* What the scan passes up to its end respects the dependencies.
LEMMA ScanRespects ==
    ASSUME TypeOK, SubmitInv, SerialInv, DependencyInv,
           NEW t \in Owner, NEW c \in Collection,
           NEW end \in first_id[t][c] .. current_id[t][c], ScanEnds(t, c, end)
    PROVE  \A i \in 0 .. end - 1 :
              transactions[t][c][i].kind = "dependency" =>
                  transactions[t][c][i].on \in applied
<1> SUFFICES ASSUME NEW i \in 0 .. end - 1, transactions[t][c][i].kind = "dependency"
             PROVE  transactions[t][c][i].on \in applied
  OBVIOUS
<1>1. first_id[t][c] \in Nat /\ current_id[t][c] \in Nat
  BY LogType
<1>2. CASE i \in 0 .. first_id[t][c] - 1
  BY <1>2 DEF DependencyInv, DependencyRespected
<1>3. CASE i \in first_id[t][c] .. end - 1
  <2>1. ~Breaks(t, c, i)
    BY <1>3 DEF ScanEnds
  <2>2. i \in first_id[t][c] .. current_id[t][c] - 1 /\ i \in 0 .. current_id[t][c] - 1
    BY <1>1, <1>3
  <2>3. ~transactions[t][c][i].done
    BY <2>2 DEF SubmitInv, Frontier
  <2>4. Met(c, transactions[t][c][i])
    BY <2>1, <2>3 DEF Breaks
  <2>5. Known(c, transactions[t][c][i].on)
    BY <2>2 DEF DependencyInv, DependenciesKnown
  <2> QED
    BY <2>4, <2>5, MetIsApplied DEF DependencyInv
<1> QED
  BY <1>1, <1>2, <1>3

\* Every step keeps what dependencies wait for known.
LEMMA NextKnown ==
    ASSUME TypeOK, TypeOK', SubmitInv, SerialInv, DependencyInv, [Next]_vars
    PROVE  DependenciesKnown'
<1>1. ASSUME NEW t \in Owner, NEW c \in Collection, NEW e, Pushes(t, c, e)
      PROVE  DependenciesKnown'
  <2>1. /\ UNCHANGED <<epoch, first_id, poolVars>>
        /\ current_id'[t][c] = current_id[t][c] + 1
        /\ transactions'[t][c][current_id[t][c]] = e
        /\ \A o \in Owner, k \in Collection : o # t \/ k # c =>
             current_id'[o][k] = current_id[o][k]
        /\ \A o \in Owner, k \in Collection : \A id \in 0 .. current_id[o][k] - 1 :
             transactions'[o][k][id] = transactions[o][k][id]
    BY <1>1, PushesFacts
  <2>2. \A o \in Owner, k \in Collection :
          /\ current_id[o][k] \in Nat
          /\ current_id'[o][k] \in Nat
          /\ current_id[o][k] <= current_id'[o][k]
    BY <2>1, LogType
  <2>3. ASSUME NEW k \in Collection, NEW on, Known(k, on) PROVE Known(k, on)'
    <3>1. on.owner \in Owner
      BY <2>3 DEF Known, Operation
    <3>2. UNCHANGED epoch /\ applied \subseteq applied'
      BY <2>1 DEF poolVars
    <3>3. \A id \in 0 .. current_id[on.owner][k] - 1 :
            transactions'[on.owner][k][id].kind = transactions[on.owner][k][id].kind
      BY <2>1, <3>1
    <3> QED
      BY <2>2, <2>3, <3>1, <3>2, <3>3, KnownKeeps
  <2>4. ASSUME e.kind = "dependency" PROVE Known(c, e.on)
    <3>1. PICK o \in Owner, id \in 0 .. MaxSlots - 1 :
            /\ id \in DOMAIN transactions[o][c]
            /\ transactions[o][c][id].kind # "dependency"
            /\ e.on = [owner |-> o, epoch |-> epoch[o], collection |-> c, id |-> id]
      BY <1>1, <2>4 DEF Pushes
    <3>2. epoch[o] \in Nat /\ current_id[o][c] \in Nat /\ id \in 0 .. current_id[o][c] - 1
      BY <3>1 DEF TypeOK
    <3> QED
      BY <3>1, <3>2 DEF Known, Operation
  <2> SUFFICES ASSUME NEW o \in Owner, NEW k \in Collection,
                      NEW i \in 0 .. current_id'[o][k] - 1,
                      transactions'[o][k][i].kind = "dependency"
               PROVE  Known(k, transactions[o][k][i].on)'
    BY DEF DependenciesKnown
  <2>5. CASE i \in 0 .. current_id[o][k] - 1
    <3>1. transactions'[o][k][i] = transactions[o][k][i]
      BY <2>1, <2>5
    <3>2. Known(k, transactions[o][k][i].on)
      BY <2>5, <3>1 DEF DependencyInv, DependenciesKnown
    <3>3. Known(k, transactions[o][k][i].on)' <=>
            \E on : on = transactions[o][k][i].on /\ Known(k, on)'
      BY <3>1 DEF Known
    <3> QED
      BY <2>3, <3>2, <3>3
  <2>6. CASE i \notin 0 .. current_id[o][k] - 1
    <3>1. o = t /\ k = c /\ i = current_id[t][c]
      BY <2>1, <2>2, <2>6
    <3>2. e.kind = "dependency" /\ transactions'[o][k][i] = e
      BY <2>1, <3>1
    <3>3. Known(c, e.on)'
      BY <2>3, <2>4, <3>2
    <3> QED
      BY <3>1, <3>2, <3>3 DEF Known
  <2> QED
    BY <2>5, <2>6
<1>2. ASSUME UNCHANGED <<epoch, current_id>>, applied \subseteq applied',
             \A o \in Owner, k \in Collection : \A id \in 0 .. current_id[o][k] - 1 :
                /\ transactions'[o][k][id].kind = transactions[o][k][id].kind
                /\ transactions[o][k][id].kind = "dependency" =>
                     transactions'[o][k][id].on = transactions[o][k][id].on
      PROVE  DependenciesKnown'
  <2> SUFFICES ASSUME NEW o \in Owner, NEW k \in Collection,
                      NEW i \in 0 .. current_id[o][k] - 1,
                      transactions'[o][k][i].kind = "dependency"
               PROVE  Known(k, transactions[o][k][i].on)'
    BY <1>2 DEF DependenciesKnown
  <2>1. /\ transactions[o][k][i].kind = "dependency"
        /\ transactions'[o][k][i].on = transactions[o][k][i].on
    BY <1>2
  <2>2. PICK on : on = transactions[o][k][i].on
    OBVIOUS
  <2>3. Known(k, on)
    BY <2>1, <2>2 DEF DependencyInv, DependenciesKnown
  <2>4. on.owner \in Owner
    BY <2>3 DEF Known, Operation
  <2>5. /\ current_id[on.owner][k] \in Nat
        /\ current_id'[on.owner][k] = current_id[on.owner][k]
        /\ \A id \in 0 .. current_id[on.owner][k] - 1 :
              transactions'[on.owner][k][id].kind = transactions[on.owner][k][id].kind
    BY <1>2, <2>4, LogType
  <2>6. Known(k, on)'
    BY <1>2, <2>3, <2>5, KnownKeeps
  <2> QED
    BY <2>1, <2>2, <2>6 DEF Known
<1>3. ASSUME NEW t \in Owner, Reinit(t) PROVE DependenciesKnown'
  <2>1. /\ t \notin present
        /\ epoch[t] \in Nat /\ epoch'[t] = epoch[t] + 1
        /\ \A c \in Collection : current_id'[t][c] = 0
        /\ applied' = applied
    BY <1>3 DEF Reinit, TypeOK, poolVars
  <2>2. \A o \in Owner : o # t =>
          /\ epoch'[o] = epoch[o]
          /\ current_id'[o] = current_id[o]
          /\ transactions'[o] = transactions[o]
    BY <1>3 DEF Reinit, TypeOK
  <2>3. scheduled[t]
    BY <2>1 DEF SerialInv, Dropped
  <2> SUFFICES ASSUME NEW o \in Owner, NEW k \in Collection,
                      NEW i \in 0 .. current_id'[o][k] - 1,
                      transactions'[o][k][i].kind = "dependency"
               PROVE  Known(k, transactions[o][k][i].on)'
    BY DEF DependenciesKnown
  <2>4. o # t
    BY <2>1
  <2>5. PICK on : on = transactions[o][k][i].on
    OBVIOUS
  <2>6. Known(k, on) /\ transactions'[o][k][i] = transactions[o][k][i]
    BY <2>2, <2>4, <2>5 DEF DependencyInv, DependenciesKnown
  <2>7. on \in Operation /\ on.owner \in Owner /\ on.epoch \in Nat
    BY <2>6 DEF Known, Operation
  <2>8. CASE on.owner = t
    <3>1. on \in applied
      BY <2>3, <2>6, <2>8, GivenUpIsApplied DEF DependencyInv
    <3>2. on.epoch <= epoch'[on.owner]
      BY <2>1, <2>6, <2>7, <2>8 DEF Known
    <3> QED
      BY <2>1, <2>5, <2>6, <3>1, <3>2 DEF Known
  <2>9. CASE on.owner # t
    BY <2>1, <2>2, <2>5, <2>6, <2>7, <2>9 DEF Known
  <2> QED
    BY <2>8, <2>9
<1>4. ASSUME NEW t \in Owner, NEW c \in Collection, NEW end, Passes(t, c, end)
      PROVE  DependenciesKnown'
  BY <1>2, <1>4, PassesFacts DEF poolVars
<1>5. ASSUME NEW t \in Owner, NEW c \in Collection, NEW end, NEW ids, NEW n,
             Submits(t, c, end, ids, n)
      PROVE  DependenciesKnown'
  BY <1>2, <1>5, SubmitsFacts
<1>6. ASSUME NEW t \in Owner, Marks(t) PROVE DependenciesKnown'
  BY <1>2, <1>6, MarksFacts DEF logVars, poolVars
<1>7. CASE StartBatch
  BY <1>2, <1>7 DEF StartBatch, logVars
<1>8. ASSUME NEW b, NEW s, NEW ran, NEW ids, NEW ended, Runs(b, s, ran, ids, ended)
      PROVE  DependenciesKnown'
  <2>1. applied \subseteq applied'
    BY <1>8 DEF Runs
  <2> QED
    BY <1>2, <1>8, <2>1, RunsFacts
<1>9. CASE UNCHANGED vars
  BY <1>2, <1>9 DEF vars
<1> QED
  BY <1>1, <1>3, <1>4, <1>5, <1>6, <1>7, <1>8, <1>9, NextSteps

\* Every step respects the dependencies.
LEMMA NextRespects ==
    ASSUME TypeOK, SubmitInv, SerialInv, DependencyInv, [Next]_vars
    PROVE  DependencyRespected'
<1>1. ASSUME applied \subseteq applied',
             \A o \in Owner, k \in Collection : \A i \in 0 .. first_id'[o][k] - 1 :
                /\ i \in 0 .. first_id[o][k] - 1
                /\ transactions'[o][k][i].kind = "dependency" =>
                     /\ transactions[o][k][i].kind = "dependency"
                     /\ transactions'[o][k][i].on = transactions[o][k][i].on
      PROVE  DependencyRespected'
  BY <1>1 DEF DependencyInv, DependencyRespected
<1>2. \A o \in Owner, k \in Collection : \A i \in 0 .. first_id[o][k] - 1 :
        i \in 0 .. current_id[o][k] - 1
  BY SentAreEntries
<1>3. ASSUME NEW t \in Owner, NEW c \in Collection, NEW e, Pushes(t, c, e)
      PROVE  DependencyRespected'
  <2>1. UNCHANGED <<first_id, applied>>
    BY <1>3, PushesFacts DEF poolVars
  <2>2. \A o \in Owner, k \in Collection : \A id \in 0 .. current_id[o][k] - 1 :
             transactions'[o][k][id] = transactions[o][k][id]
    BY <1>3, PushesFacts
  <2> QED
    BY <1>1, <1>2, <2>1, <2>2
<1>4. ASSUME NEW t \in Owner, NEW c \in Collection, NEW end,
             end \in first_id[t][c] .. current_id[t][c], ScanEnds(t, c, end),
             applied' = applied, first_id'[t][c] = end,
             \A o \in Owner, k \in Collection : o # t \/ k # c =>
                first_id'[o][k] = first_id[o][k],
             \A o \in Owner, k \in Collection : \A id \in 0 .. current_id[o][k] - 1 :
                /\ transactions'[o][k][id].kind = transactions[o][k][id].kind
                /\ transactions[o][k][id].kind = "dependency" =>
                     transactions'[o][k][id].on = transactions[o][k][id].on
      PROVE  DependencyRespected'
  <2> SUFFICES ASSUME NEW o \in Owner, NEW k \in Collection,
                      NEW i \in 0 .. first_id'[o][k] - 1,
                      transactions'[o][k][i].kind = "dependency"
               PROVE  transactions'[o][k][i].on \in applied
    BY <1>4 DEF DependencyRespected
  <2>1. CASE o = t /\ k = c
    <3>1. i \in 0 .. end - 1 /\ i \in 0 .. current_id[t][c] - 1
      BY <1>4, <2>1, LogType
    <3>2. /\ transactions[t][c][i].kind = "dependency"
          /\ transactions'[t][c][i].on = transactions[t][c][i].on
      BY <1>4, <2>1, <3>1
    <3> QED
      BY <1>4, <2>1, <3>1, <3>2, ScanRespects
  <2>2. CASE o # t \/ k # c
    BY <1>2, <1>4, <2>2 DEF DependencyInv, DependencyRespected
  <2> QED
    BY <2>1, <2>2
<1>5. ASSUME NEW t \in Owner, NEW c \in Collection, NEW end, Passes(t, c, end)
      PROVE  DependencyRespected'
  <2>1. end \in first_id[t][c] .. current_id[t][c] /\ ScanEnds(t, c, end)
    BY <1>5 DEF Passes
  <2>2. /\ UNCHANGED <<transactions, poolVars>> /\ first_id'[t][c] = end
        /\ \A o \in Owner, k \in Collection : o # t \/ k # c =>
             first_id'[o][k] = first_id[o][k]
    BY <1>5, PassesFacts
  <2> QED
    BY <1>4, <2>1, <2>2 DEF poolVars
<1>6. ASSUME NEW t \in Owner, NEW c \in Collection, NEW end, NEW ids, NEW n,
             Submits(t, c, end, ids, n)
      PROVE  DependencyRespected'
  <2>1. end \in first_id[t][c] .. current_id[t][c] /\ ScanEnds(t, c, end)
    BY <1>6 DEF Submits, Sends
  <2>2. /\ applied' = applied /\ first_id'[t][c] = end
        /\ \A o \in Owner, k \in Collection : o # t \/ k # c =>
             first_id'[o][k] = first_id[o][k]
        /\ \A o \in Owner, k \in Collection : \A id \in 0 .. current_id[o][k] - 1 :
             /\ transactions'[o][k][id].kind = transactions[o][k][id].kind
             /\ transactions[o][k][id].kind = "dependency" =>
                  transactions'[o][k][id].on = transactions[o][k][id].on
    BY <1>6, SubmitsFacts
  <2> QED
    BY <1>4, <2>1, <2>2
<1>7. ASSUME NEW t \in Owner, Reinit(t) PROVE DependencyRespected'
  <2>1. /\ \A c \in Collection : first_id'[t][c] = 0
        /\ applied' = applied
        /\ \A o \in Owner : o # t =>
             first_id'[o] = first_id[o] /\ transactions'[o] = transactions[o]
    BY <1>7 DEF Reinit, TypeOK, poolVars
  <2>2. ASSUME NEW o \in Owner, NEW k \in Collection, NEW i \in 0 .. first_id'[o][k] - 1
        PROVE  /\ i \in 0 .. first_id[o][k] - 1
               /\ transactions'[o][k][i] = transactions[o][k][i]
    <3>1. o # t
      BY <2>1
    <3> QED
      BY <2>1, <3>1
  <2> QED
    BY <1>1, <2>1, <2>2
<1>8. ASSUME UNCHANGED <<first_id, transactions, applied>> PROVE DependencyRespected'
  BY <1>1, <1>8
<1>9. ASSUME NEW b, NEW s, NEW ran, NEW ids, NEW ended, Runs(b, s, ran, ids, ended)
      PROVE  DependencyRespected'
  <2>1. applied \subseteq applied'
    BY <1>9 DEF Runs
  <2>2. /\ first_id' = first_id
        /\ \A o \in Owner, k \in Collection : \A id \in 0 .. current_id[o][k] - 1 :
             /\ transactions'[o][k][id].kind = transactions[o][k][id].kind
             /\ transactions[o][k][id].kind = "dependency" =>
                  transactions'[o][k][id].on = transactions[o][k][id].on
    BY <1>9, RunsFacts
  <2> QED
    BY <1>1, <1>2, <2>1, <2>2
<1>10. ASSUME NEW t \in Owner, Marks(t) PROVE DependencyRespected'
  BY <1>8, <1>10, MarksFacts DEF logVars, poolVars
<1>11. CASE StartBatch
  BY <1>8, <1>11 DEF StartBatch, logVars
<1>12. CASE UNCHANGED vars
  BY <1>8, <1>12 DEF vars
<1> QED
  BY <1>3, <1>5, <1>6, <1>7, <1>9, <1>10, <1>11, <1>12, NextSteps

\* Every step keeps the account of what was carried out.
LEMMA NextApplied ==
    ASSUME ~BulkMayFail, TypeOK, SubmitInv, AppliedInv, [Next]_vars
    PROVE  AppliedInv'
<1>1. ASSUME UNCHANGED <<epoch, first_id, current_id, transactions, applied>>,
             InFlight' = InFlight
      PROVE  AppliedInv'
  BY <1>1 DEF AppliedInv, DoneIsApplied, LeftIsLeft, AppliedIsSent, Current, Op
<1>2. ASSUME NEW t \in Owner, Marks(t) PROVE AppliedInv'
  BY <1>1, <1>2, MarksFacts DEF logVars, poolVars, InFlight
<1>3. CASE StartBatch
  <2>1. InFlight' = InFlight
    BY <1>3, StartSubmit
  <2>2. UNCHANGED <<epoch, first_id, current_id, transactions, applied>>
    BY <1>3 DEF StartBatch, logVars
  <2> QED
    BY <1>1, <2>1, <2>2
<1>4. CASE UNCHANGED vars
  BY <1>1, <1>4 DEF vars, InFlight
<1> QED
  BY <1>2, <1>3, <1>4, NextSteps, PushesApplied, PassesApplied, SubmitsApplied,
     ReinitApplied, RunsApplied

SerialState ==
    TypeOK /\ SubmitInv /\ NoneForgotten /\ PoolInv /\ SerialInv /\ DependencyInv

\* The invariants together, when the server carries out all of a bulk.
LEMMA DependencyInvariant ==
    ASSUME DbThreads = 1, ~BulkMayFail, ~UsedInCheck
    PROVE  Spec => []SerialState
<1>1. TypeOK /\ TypeOK' /\ SubmitInv /\ SerialInv /\ DependencyInv /\ [Next]_vars
        => DependencyInv'
  BY NextApplied, NextKnown, NextRespects DEF DependencyInv
<1>2. Spec => [](TypeOK /\ SubmitInv /\ NoneForgotten /\ PoolInv /\ SerialInv)
  BY SerialInvariant
<1>3. TypeOK /\ SubmitInv /\ NoneForgotten /\ PoolInv /\ SerialInv /\ DependencyInv
        => SerialState
  BY DEF SerialState
<1> QED
  BY <1>1, <1>2, <1>3, InitDependency, PTL DEF Spec

\* With one database thread, a server that carries out all of a bulk, and owners
\* that nobody uses while update() looks whether to give them up, what
\* is pushed behind a dependency is sent only after the operation it depends on
\* was carried out, also when the owner of that operation was deleted or its
\* object used again.
THEOREM DependenciesRespected ==
    ASSUME DbThreads = 1, ~BulkMayFail, ~UsedInCheck
    PROVE  Spec => []DependencyRespected
<1>1. SerialState => DependencyRespected
  BY DEF SerialState, DependencyInv
<1> QED
  BY <1>1, DependencyInvariant, PTL

----------------------------------------------------------------------------
(***************************************************************************)
(* The logs implement OperationLog.                                        *)
(***************************************************************************)

\* o is an operation of a present log.
InLog(o) ==
    /\ o \in Operation
    /\ o.epoch = epoch[o.owner]
    /\ o.id < current_id[o.owner][o.collection]
    /\ transactions[o.owner][o.collection][o.id].kind # "dependency"

LoggedIs == \A o : o \in Logged <=> InLog(o)

\* Logged holds the operations of the present logs.
LEMMA LoggedInLog == TypeOK => LoggedIs
<1> SUFFICES ASSUME TypeOK, NEW o PROVE o \in Logged <=> InLog(o)
  BY DEF LoggedIs
<1> DEFINE Ids(t, c) == {k \in 0 .. current_id[t][c] - 1 :
                            transactions[t][c][k].kind # "dependency"}
           Log(t, c) == {Current(t, c, id) : id \in Ids(t, c)}
<1>1. Logged = UNION {Log(t, c) : t \in Owner, c \in Collection}
  BY DEF Logged
<1>2. o \in Logged <=> \E t \in Owner, c \in Collection : o \in Log(t, c)
  <2> HIDE DEF Log
  <2> QED
    BY <1>1
<1>3. \A t, c : o \in Log(t, c) <=> \E id \in Ids(t, c) : o = Current(t, c, id)
  BY DEF Current
<1>4. ASSUME NEW t \in Owner, NEW c \in Collection, NEW id \in Ids(t, c),
             o = Current(t, c, id)
      PROVE  InLog(o)
  <2>1. /\ epoch[t] \in Nat /\ current_id[t][c] \in Nat
        /\ id \in Nat /\ id < current_id[t][c]
    BY LogType
  <2>2. o.owner = t /\ o.epoch = epoch[t] /\ o.collection = c /\ o.id = id
    BY <1>4 DEF Current
  <2>3. o \in Operation
    BY <1>4, <2>1 DEF Current, Operation
  <2> QED
    BY <2>1, <2>2, <2>3 DEF InLog
<1>5. ASSUME InLog(o)
      PROVE  \E t \in Owner, c \in Collection : \E id \in Ids(t, c) : o = Current(t, c, id)
  <2>1. /\ o.owner \in Owner /\ o.collection \in Collection /\ o.id \in Nat
        /\ o.epoch = epoch[o.owner]
        /\ o = Current(o.owner, o.collection, o.id)
    BY <1>5 DEF InLog, Operation, Current
  <2>2. o.id \in Ids(o.owner, o.collection)
    BY <1>5, <2>1, LogType DEF InLog
  <2> QED
    BY <2>1, <2>2
<1> HIDE DEF Ids, Log
<1> QED
  BY <1>2, <1>3, <1>4, <1>5

\* The steps of OperationLog, told by what they do to the four sets.
LEMMA AbstractStutter ==
    ASSUME Logged' = Logged, SentOps' = SentOps, DoneOps' = DoneOps, applied' = applied
    PROVE  UNCHANGED Abstract!vars
BY DEF Abstract!vars

LEMMA AbstractPush ==
    ASSUME NEW o \in Operation, o \notin Logged, o \notin applied,
           \A p \in Logged : ~(/\ o.owner = p.owner /\ o.epoch = p.epoch
                               /\ o.collection = p.collection /\ o.id < p.id),
           Logged' = Logged \cup {o},
           SentOps' = SentOps, DoneOps' = DoneOps, applied' = applied
    PROVE  Abstract!Next
<1>1. Abstract!Push(o)
  BY DEF Abstract!Push, Abstract!Before
<1>2. o \in Logged' \ Logged /\ o \in Abstract!Operation
  BY DEF Operation, Abstract!Operation
<1> QED
  BY <1>1, <1>2 DEF Abstract!Next

LEMMA AbstractSend ==
    ASSUME NEW S, S # {}, S \cap SentOps = {}, S \subseteq Logged,
           \A o \in Logged, p \in S :
              /\ o.owner = p.owner /\ o.epoch = p.epoch
              /\ o.collection = p.collection /\ o.id < p.id
              => o \in SentOps \cup S,
           SentOps' = SentOps \cup S,
           Logged' = Logged, DoneOps' = DoneOps, applied' = applied
    PROVE  Abstract!Next
<1>1. \A T : T = S => Abstract!Send(T)
  BY DEF Abstract!Send, Abstract!Before
<1>2. S = (SentOps' \ SentOps) \cap Logged
  OBVIOUS
<1> QED
  BY <1>1, <1>2 DEF Abstract!Next

\* All that was pushed before o into its log was carried out.
MayCarryOut(o) ==
    /\ o \notin applied
    /\ \A p \in Logged :
          /\ p.owner = o.owner /\ p.epoch = o.epoch
          /\ p.collection = o.collection /\ p.id < o.id
          => p \in applied

LEMMA AbstractApply ==
    ASSUME NEW o \in SentOps, MayCarryOut(o), applied' = applied \cup {o},
           Logged' = Logged, SentOps' = SentOps, DoneOps' = DoneOps
    PROVE  Abstract!Next
<1>1. Abstract!Apply(o)
  BY DEF Abstract!Apply, Abstract!Before, MayCarryOut
<1> QED
  BY <1>1 DEF Abstract!Next

LEMMA AbstractFinish ==
    ASSUME NEW S, S # {}, S \subseteq SentOps, S \subseteq applied, S \cap DoneOps = {},
           DoneOps' = DoneOps \cup S,
           Logged' = Logged, SentOps' = SentOps, applied' = applied
    PROVE  Abstract!Next
<1>1. \A T : T = S => Abstract!Finish(T)
  BY DEF Abstract!Finish
<1>2. S = (DoneOps' \ DoneOps) \cap SentOps
  OBVIOUS
<1> QED
  BY <1>1, <1>2 DEF Abstract!Next

LEMMA AbstractRetire ==
    ASSUME NEW t \in Owner, NEW S, S = {o \in Logged : o.owner = t},
           S # {}, S \subseteq DoneOps,
           Logged' = Logged \ S, SentOps' = SentOps \ S, DoneOps' = DoneOps \ S,
           applied' = applied
    PROVE  Abstract!Next
<1>1. Abstract!Retire(t)
  BY DEF Abstract!Retire
<1> QED
  BY <1>1 DEF Abstract!Next

\* Where logs, first_id and done entries stay, OperationLog stands still.
LEMMA SameOps ==
    ASSUME TypeOK, LoggedIs, LoggedIs', UNCHANGED <<epoch, current_id>>,
           \A t \in Owner, c \in Collection : \A id \in 0 .. current_id[t][c] - 1 :
              transactions'[t][c][id].kind = transactions[t][c][id].kind
    PROVE  /\ Logged' = Logged
           /\ \A o \in Logged : /\ o.owner \in Owner
                                /\ o.collection \in Collection
                                /\ o.id \in 0 .. current_id[o.owner][o.collection] - 1
                                /\ o = Current(o.owner, o.collection, o.id)
<1>1. \A o \in Operation :
        /\ o.owner \in Owner /\ o.collection \in Collection /\ o.id \in Nat
        /\ o.id < current_id[o.owner][o.collection] =>
             o.id \in 0 .. current_id[o.owner][o.collection] - 1
  BY LogType DEF Operation
<1>2. \A o : InLog(o) <=> InLog(o)'
  BY <1>1 DEF InLog
<1>3. Logged' = Logged
  BY <1>2 DEF LoggedIs
<1>4. \A o \in Logged : InLog(o)
  BY DEF LoggedIs
<1>5. \A o : InLog(o) => o = Current(o.owner, o.collection, o.id)
  BY DEF InLog, Operation, Current
<1> QED
  BY <1>1, <1>3, <1>4, <1>5 DEF InLog

\* The operations of a present log by owner, collection and id.
LEMMA LoggedCurrent ==
    ASSUME TypeOK, LoggedIs, NEW t \in Owner, NEW c \in Collection,
           NEW id \in 0 .. current_id[t][c] - 1
    PROVE  /\ Current(t, c, id) \in Operation
           /\ Current(t, c, id).owner = t
           /\ Current(t, c, id).epoch = epoch[t]
           /\ Current(t, c, id).collection = c
           /\ Current(t, c, id).id = id
           /\ transactions[t][c][id].kind # "dependency" => Current(t, c, id) \in Logged
<1>1. epoch[t] \in Nat /\ current_id[t][c] \in Nat /\ id \in Nat /\ id < current_id[t][c]
  BY LogType
<1> QED
  BY <1>1 DEF Current, Operation, LoggedIs, InLog

\* A push is a push, or one of a dependency.
LEMMA PushesRefine ==
    ASSUME TypeOK, TypeOK', SubmitInv, AppliedInv, LoggedIs, LoggedIs',
           NEW t \in Owner, NEW c \in Collection, NEW e, Pushes(t, c, e)
    PROVE  Abstract!Next \/ UNCHANGED Abstract!vars
<1>a. PICK n : n = current_id[t][c]
  OBVIOUS
<1>b. PICK o : o = Current(t, c, n)
  OBVIOUS
<1>1. /\ UNCHANGED <<epoch, first_id, applied>>
      /\ current_id'[t][c] = n + 1
      /\ transactions'[t][c][n] = e
      /\ \A u \in Owner, k \in Collection : u # t \/ k # c =>
           current_id'[u][k] = current_id[u][k]
      /\ \A u \in Owner, k \in Collection : \A id \in 0 .. current_id[u][k] - 1 :
           transactions'[u][k][id] = transactions[u][k][id]
  BY <1>a, PushesFacts DEF poolVars
<1>2. epoch[t] \in Nat /\ first_id[t][c] \in Nat /\ n \in Nat /\ first_id[t][c] <= n
  BY <1>a, LogType DEF SubmitInv, Frontier
<1>3. /\ o \in Operation /\ o.owner = t /\ o.epoch = epoch[t]
      /\ o.collection = c /\ o.id = n
  BY <1>2, <1>b DEF Current, Operation
<1>4. \A p \in Operation : /\ p.owner \in Owner /\ p.collection \in Collection
                           /\ p.id \in Nat /\ p.epoch \in Nat
  BY DEF Operation
<1>5. \A p \in Operation : p.epoch = epoch[t] /\ p.owner = t /\ p.collection = c /\ p.id = n
                            => p = o
  BY <1>b DEF Operation, Current
<1>6. ASSUME NEW p \in Operation
      PROVE  /\ InLog(p) => /\ InLog(p)'
                            /\ p.id \in 0 .. current_id[p.owner][p.collection] - 1
                            /\ transactions'[p.owner][p.collection][p.id] =
                                 transactions[p.owner][p.collection][p.id]
             /\ InLog(p)' => InLog(p) \/ (p = o /\ e.kind # "dependency")
  <2>1. current_id[p.owner][p.collection] \in Nat
    BY <1>4, LogType
  <2>2. CASE p.owner = t /\ p.collection = c
    <3>1. p.id < n + 1 => p.id = n \/ p.id < n
      BY <1>2, <1>4
    <3>2. p.id < n => p.id \in 0 .. n - 1
      BY <1>2, <1>4
    <3> QED
      BY <1>a, <1>1, <1>2, <1>4, <1>5, <2>2, <3>1, <3>2 DEF InLog
  <2>3. CASE p.owner # t \/ p.collection # c
    <3>1. p.id < current_id[p.owner][p.collection] =>
            p.id \in 0 .. current_id[p.owner][p.collection] - 1
      BY <1>4, <2>1
    <3> QED
      BY <1>1, <1>4, <2>3, <3>1 DEF InLog
  <2> QED
    BY <2>2, <2>3
<1>7. InLog(o)' <=> e.kind # "dependency"
  BY <1>1, <1>2, <1>3 DEF InLog
<1>8. ~InLog(o)
  BY <1>a, <1>2, <1>3 DEF InLog
<1>9. \A p : InLog(p) \/ InLog(p)' => p \in Operation
  BY DEF InLog
<1>10. \A p \in Logged : /\ p \in Operation /\ InLog(p)
                         /\ transactions'[p.owner][p.collection][p.id] =
                              transactions[p.owner][p.collection][p.id]
  BY <1>6, <1>9 DEF LoggedIs
<1>11. CASE e.kind = "dependency"
  <2>1. Logged' = Logged
    BY <1>6, <1>9, <1>11 DEF LoggedIs
  <2>2. SentOps' = SentOps /\ DoneOps' = DoneOps
    BY <1>1, <1>10, <2>1 DEF SentOps, DoneOps
  <2> QED
    BY <1>1, <2>1, <2>2, AbstractStutter
<1>12. CASE e.kind # "dependency"
  <2>1. Logged' = Logged \cup {o}
    BY <1>6, <1>7, <1>9, <1>12 DEF LoggedIs
  <2>2. o \notin SentOps' /\ o \notin DoneOps'
    <3>1. ~(o.id < first_id'[o.owner][o.collection])
      BY <1>1, <1>2, <1>3
    <3>2. ~transactions'[o.owner][o.collection][o.id].done
      BY <1>1, <1>3 DEF Pushes
    <3> QED
      BY <3>1, <3>2 DEF SentOps, DoneOps
  <2>3. \A p \in Logged : /\ p \in SentOps' <=> p \in SentOps
                          /\ p \in DoneOps' <=> p \in DoneOps
    BY <1>1, <1>10, <2>1 DEF SentOps, DoneOps
  <2>4. /\ SentOps \subseteq Logged /\ DoneOps \subseteq Logged
        /\ SentOps' \subseteq Logged' /\ DoneOps' \subseteq Logged'
    BY DEF SentOps, DoneOps
  <2>5. SentOps' = SentOps /\ DoneOps' = DoneOps
    <3>1. SentOps' \subseteq Logged /\ DoneOps' \subseteq Logged
      BY <2>1, <2>2, <2>4
    <3> QED
      BY <2>3, <2>4, <3>1
  <2>6. o \notin Logged
    BY <1>8 DEF LoggedIs
  <2>7. o \notin applied
    BY <1>a, <1>2, <1>3 DEF AppliedInv, AppliedIsSent
  <2>8. ASSUME NEW p \in Logged, o.owner = p.owner, o.collection = p.collection, o.id < p.id
        PROVE  FALSE
    <3>1. p.id < n /\ p.id \in Nat
      BY <1>a, <1>3, <1>4, <1>10, <2>8 DEF InLog
    <3> QED
      BY <1>2, <1>3, <2>8, <3>1
  <2> QED
    BY <1>1, <1>3, <2>1, <2>5, <2>6, <2>7, <2>8, AbstractPush
<1> QED
  BY <1>11, <1>12

\* What the scan passes without sending it are dependencies.
LEMMA PassesRefine ==
    ASSUME TypeOK, SubmitInv, LoggedIs, LoggedIs',
           NEW t \in Owner, NEW c \in Collection, NEW end, Passes(t, c, end)
    PROVE  Abstract!Next \/ UNCHANGED Abstract!vars
<1>1. /\ UNCHANGED <<epoch, current_id, transactions, applied>>
      /\ end \in Nat /\ first_id[t][c] <= end /\ end <= current_id[t][c]
      /\ first_id'[t][c] = end
      /\ \A u \in Owner, k \in Collection : u # t \/ k # c =>
           first_id'[u][k] = first_id[u][k]
  BY PassesFacts DEF poolVars
<1>2. /\ Logged' = Logged
      /\ \A o \in Logged : /\ o.owner \in Owner
                           /\ o.collection \in Collection
                           /\ o.id \in 0 .. current_id[o.owner][o.collection] - 1
  BY <1>1, SameOps
<1>3. ASSUME NEW o \in Logged, o.owner = t, o.collection = c, o.id < end
      PROVE  o.id < first_id[t][c]
  <2> SUFFICES ASSUME ~(o.id < first_id[t][c]) PROVE FALSE
    OBVIOUS
  <2>1. first_id[t][c] \in Nat /\ current_id[t][c] \in Nat /\ o.id \in Nat
    BY <1>2, LogType
  <2>2. o.id \in first_id[t][c] .. end - 1
    BY <1>1, <1>3, <2>1
  <2>3. o.id \in first_id[t][c] .. current_id[t][c] - 1
    BY <1>1, <2>1, <2>2
  <2>4. ~transactions[t][c][o.id].done
    BY <2>3 DEF SubmitInv, Frontier
  <2>5. transactions[t][c][o.id].kind # "dependency"
    BY <1>3 DEF LoggedIs, InLog
  <2>6. o.id \in Taken(t, c, end)
    BY <2>2, <2>4, <2>5 DEF Taken
  <2> QED
    BY <2>6 DEF Passes
<1>4. ASSUME NEW o \in Logged
      PROVE  o.id < first_id'[o.owner][o.collection] <=> o.id < first_id[o.owner][o.collection]
  <2>1. CASE o.owner = t /\ o.collection = c
    <3>1. first_id[t][c] \in Nat /\ o.id \in Nat
      BY <1>2, LogType
    <3> QED
      BY <1>1, <1>3, <2>1, <3>1
  <2>2. CASE o.owner # t \/ o.collection # c
    BY <1>1, <1>2, <2>2
  <2> QED
    BY <2>1, <2>2
<1>5. SentOps' = SentOps
  BY <1>2, <1>4 DEF SentOps
<1>6. DoneOps' = DoneOps
  BY <1>1, <1>2 DEF DoneOps
<1> QED
  BY <1>1, <1>2, <1>5, <1>6, AbstractStutter

\* A batch that is sent holds all that lies before its end.
LEMMA SubmitsRefine ==
    ASSUME TypeOK, SubmitInv, LoggedIs, LoggedIs',
           NEW t \in Owner, NEW c \in Collection, NEW end, NEW ids, NEW n,
           Submits(t, c, end, ids, n)
    PROVE  Abstract!Next \/ UNCHANGED Abstract!vars
<1>1. /\ UNCHANGED <<epoch, current_id, applied>>
      /\ end \in Nat /\ first_id[t][c] <= end /\ end <= current_id[t][c]
      /\ ids # {} /\ ids \subseteq Nat
      /\ \A id \in ids : /\ first_id[t][c] <= id
                         /\ id < end
                         /\ transactions[t][c][id].kind # "dependency"
      /\ first_id'[t][c] = end
      /\ \A u \in Owner, k \in Collection : u # t \/ k # c =>
           first_id'[u][k] = first_id[u][k]
      /\ \A u \in Owner, k \in Collection : \A id \in 0 .. current_id[u][k] - 1 :
           /\ transactions'[u][k][id].kind = transactions[u][k][id].kind
           /\ transactions'[u][k][id].done = transactions[u][k][id].done
  BY SubmitsFacts
<1>2. /\ Logged' = Logged
      /\ \A o \in Logged : /\ o.owner \in Owner
                           /\ o.collection \in Collection
                           /\ o.id \in 0 .. current_id[o.owner][o.collection] - 1
  BY <1>1, SameOps
<1>3. first_id[t][c] \in Nat /\ current_id[t][c] \in Nat /\ epoch[t] \in Nat
  BY LogType
<1> DEFINE S == {o \in Logged : /\ o.owner = t /\ o.collection = c
                                /\ first_id[t][c] <= o.id /\ o.id < end}
<1>4. DoneOps' = DoneOps
  <2>1. \A o \in Logged : transactions'[o.owner][o.collection][o.id].done =
                           transactions[o.owner][o.collection][o.id].done
    BY <1>1, <1>2
  <2> QED
    BY <1>2, <2>1 DEF DoneOps
<1>5. ASSUME NEW o \in Logged
      PROVE  o.id < first_id'[o.owner][o.collection] <=>
               o.id < first_id[o.owner][o.collection] \/ o \in S
  <2>1. CASE o.owner = t /\ o.collection = c
    <3>1. o.id \in Nat
      BY <1>2, LogType
    <3> QED
      BY <1>1, <1>3, <2>1, <3>1
  <2>2. CASE o.owner # t \/ o.collection # c
    BY <1>1, <1>2, <2>2
  <2> QED
    BY <2>1, <2>2
<1>6. SentOps' = SentOps \cup S
  BY <1>2, <1>5 DEF SentOps
<1>7. S # {}
  <2>1. PICK id \in ids : TRUE
    BY <1>1
  <2>2. id \in 0 .. current_id[t][c] - 1
    BY <1>1, <1>3
  <2>3. /\ Current(t, c, id) \in Logged
        /\ Current(t, c, id).owner = t /\ Current(t, c, id).collection = c
        /\ Current(t, c, id).id = id
    BY <1>1, <2>2, LoggedCurrent
  <2>4. Current(t, c, id) \in S
    BY <1>1, <2>3
  <2> QED
    BY <2>4
<1>8. S \cap SentOps = {}
  <2> SUFFICES ASSUME NEW o \in S, o \in SentOps PROVE FALSE
    OBVIOUS
  <2>1. o.id < first_id[t][c] /\ first_id[t][c] <= o.id /\ o.id \in Nat
    BY <1>2, LogType DEF SentOps
  <2> QED
    BY <1>3, <2>1
<1>9. ASSUME NEW o \in Logged, NEW p \in S,
             o.owner = p.owner, o.collection = p.collection, o.id < p.id
      PROVE  o \in SentOps \cup S
  <2>1. o.id \in Nat /\ p.id \in Nat /\ p.id < end /\ o.owner = t /\ o.collection = c
    BY <1>2, <1>9, LogType
  <2>2. o.id < end
    BY <1>1, <1>9, <2>1
  <2> QED
    BY <1>3, <2>1, <2>2 DEF SentOps
<1>10. S \subseteq Logged
  OBVIOUS
<1> HIDE DEF S
<1> QED
  BY <1>1, <1>2, <1>4, <1>6, <1>7, <1>8, <1>9, <1>10, AbstractSend

\* The log of an owner is cleared when all of it is done.
LEMMA ReinitRefine ==
    ASSUME TypeOK, SerialInv, LoggedIs, LoggedIs', NEW t \in Owner, Reinit(t)
    PROVE  Abstract!Next \/ UNCHANGED Abstract!vars
<1> DEFINE S == {o \in Logged : o.owner = t}
<1>1. /\ t \notin present /\ applied' = applied
      /\ \A c \in Collection : current_id'[t][c] = 0
      /\ \A u \in Owner : u # t =>
           /\ epoch'[u] = epoch[u]
           /\ first_id'[u] = first_id[u]
           /\ current_id'[u] = current_id[u]
           /\ transactions'[u] = transactions[u]
  BY DEF Reinit, TypeOK, poolVars
<1>2. \A o \in Operation : o.owner \in Owner /\ o.collection \in Collection /\ o.id \in Nat
  BY DEF Operation
<1>3. \A o : InLog(o)' <=> InLog(o) /\ o.owner # t
  <2> SUFFICES ASSUME NEW o \in Operation PROVE InLog(o)' <=> InLog(o) /\ o.owner # t
    BY DEF InLog
  <2>1. CASE o.owner = t
    BY <1>1, <1>2, <2>1 DEF InLog
  <2>2. CASE o.owner # t
    BY <1>1, <1>2, <2>2 DEF InLog
  <2> QED
    BY <2>1, <2>2
<1>4. Logged' = Logged \ S
  BY <1>3 DEF LoggedIs
<1>5. \A o \in Logged : o \in Operation /\ o.owner \in Owner
  BY <1>2 DEF LoggedIs, InLog
<1>6. SentOps' = SentOps \ S
  BY <1>1, <1>4, <1>5 DEF SentOps
<1>7. DoneOps' = DoneOps \ S
  BY <1>1, <1>4, <1>5 DEF DoneOps
<1>8. S \subseteq DoneOps
  <2> SUFFICES ASSUME NEW o \in S PROVE transactions[o.owner][o.collection][o.id].done
    BY DEF DoneOps
  <2>1. /\ o \in Operation /\ o.owner = t /\ o.collection \in Collection /\ o.id \in Nat
        /\ o.id < current_id[t][o.collection]
        /\ transactions[t][o.collection][o.id].kind # "dependency"
    BY <1>2, <1>5 DEF LoggedIs, InLog
  <2>2. DoneUpTo(t, o.collection, current_id[t][o.collection])
    BY <1>1, <2>1 DEF SerialInv, Dropped, Idle, Through
  <2>3. o.id \in 0 .. current_id[t][o.collection] - 1
    BY <2>1, LogType
  <2> QED
    BY <2>1, <2>2, <2>3 DEF DoneUpTo
<1>9. CASE S = {}
  BY <1>1, <1>4, <1>6, <1>7, <1>9, AbstractStutter
<1>10. CASE S # {}
  BY <1>1, <1>4, <1>6, <1>7, <1>8, <1>10, AbstractRetire
<1> QED
  BY <1>9, <1>10

\* The batch in the thread's hands carries out its operations behind all that
\* was pushed before them, and flags what it has carried out.
LEMMA RunsRefine ==
    ASSUME ~BulkMayFail, TypeOK, SubmitInv, NoneForgotten, PoolInv, AppliedInv,
           LoggedIs, LoggedIs',
           NEW b, NEW s, NEW ran, NEW ids, NEW ended, Runs(b, s, ran, ids, ended)
    PROVE  Abstract!Next \/ UNCHANGED Abstract!vars
<1>1. /\ UNCHANGED <<epoch, first_id, current_id>>
      /\ b \in Batch /\ b \in InFlight /\ BatchInv(b)
      /\ b.owner \in Owner /\ b.collection \in Collection
      /\ b.ids \subseteq Nat /\ b.left \subseteq b.undone /\ b.undone \subseteq b.ids
      /\ ids \subseteq b.undone /\ (ids # {} => Alive(b))
      /\ \A o \in Owner, k \in Collection : \A id \in 0 .. current_id[o][k] - 1 :
           /\ transactions'[o][k][id].kind = transactions[o][k][id].kind
           /\ transactions'[o][k][id].done <=>
                \/ transactions[o][k][id].done
                \/ o = b.owner /\ k = b.collection /\ id \in ids
  BY RunsFacts
<1>2. /\ b \in running
      /\ ran \subseteq b.left /\ (ran # {} => Alive(b))
      /\ \A i \in ran, j \in b.left : i <= j
      /\ ids \cap b.left = {}
      /\ ran = {} \/ ids = {}
      /\ applied' = applied \cup {Op(b, id) : id \in ran}
  BY DEF Runs, Executes
<1>3. /\ Logged' = Logged
      /\ \A o \in Logged : /\ o.owner \in Owner
                           /\ o.collection \in Collection
                           /\ o.id \in 0 .. current_id[o.owner][o.collection] - 1
                           /\ o = Current(o.owner, o.collection, o.id)
  BY <1>1, SameOps
<1>4. SentOps' = SentOps
  BY <1>1, <1>3 DEF SentOps
<1> DEFINE S == {Op(b, id) : id \in ids}
<1>5. ASSUME Alive(b), NEW id \in b.ids
      PROVE  /\ id \in 0 .. current_id[b.owner][b.collection] - 1
             /\ Op(b, id) = Current(b.owner, b.collection, id)
             /\ Op(b, id) \in SentOps
             /\ transactions[b.owner][b.collection][id].kind # "dependency"
  <2>1. id \in Nat /\ id < first_id[b.owner][b.collection]
    BY <1>1, <1>5 DEF BatchInv
  <2>2. id \in 0 .. current_id[b.owner][b.collection] - 1
    BY <1>1, <2>1, LogType DEF SubmitInv, Frontier
  <2>3. Op(b, id) = Current(b.owner, b.collection, id)
    BY <1>5 DEF Op, Current, Alive
  <2>4. transactions[b.owner][b.collection][id].kind # "dependency"
    BY <1>1, <1>5 DEF BatchInv
  <2> QED
    BY <1>1, <2>1, <2>2, <2>3, <2>4, LoggedCurrent DEF SentOps
<1>6. CASE ran = {} /\ ids = {}
  <2>1. applied' = applied
    BY <1>2, <1>6
  <2>2. DoneOps' = DoneOps
    BY <1>1, <1>3, <1>6 DEF DoneOps
  <2> QED
    BY <1>3, <1>4, <2>1, <2>2, AbstractStutter
<1>7. CASE ids # {}
  <2>1. applied' = applied /\ Alive(b)
    BY <1>1, <1>2, <1>7
  <2>2. DoneOps' = DoneOps \cup S
    <3>1. ASSUME NEW o \in Logged
          PROVE  o \in S <=> o.owner = b.owner /\ o.collection = b.collection /\ o.id \in ids
      <4>1. o = Current(o.owner, o.collection, o.id)
        BY <1>3
      <4>2. o.owner = b.owner /\ o.collection = b.collection => o = Op(b, o.id)
        BY <2>1, <4>1 DEF Op, Current, Alive
      <4>3. \A id : o = Op(b, id) => /\ o.owner = b.owner /\ o.collection = b.collection
                                     /\ o.id = id
        BY DEF Op
      <4> QED
        BY <4>2, <4>3
    <3>2. S \subseteq Logged
      BY <1>1, <1>5, <2>1 DEF SentOps
    <3>3. \A o \in Logged : transactions'[o.owner][o.collection][o.id].done <=>
                             transactions[o.owner][o.collection][o.id].done \/ o \in S
      BY <1>1, <1>3, <3>1
    <3> HIDE DEF S
    <3> QED
      BY <1>3, <3>2, <3>3 DEF DoneOps
  <2>3. S # {}
    BY <1>7
  <2>4. S \subseteq SentOps
    BY <1>1, <1>5, <2>1
  <2>5. S \subseteq applied
    BY <1>1, <1>2 DEF AppliedInv, LeftIsLeft
  <2>6. S \cap DoneOps = {}
    <3> SUFFICES ASSUME NEW id \in ids, Op(b, id) \in DoneOps PROVE FALSE
      OBVIOUS
    <3>1. transactions[b.owner][b.collection][id].done
      BY DEF DoneOps, Op
    <3>2. ~transactions[b.owner][b.collection][id].done
      BY <1>1, <2>1 DEF BatchInv
    <3> QED
      BY <3>1, <3>2
  <2> HIDE DEF S
  <2> QED
    BY <1>3, <1>4, <2>1, <2>2, <2>3, <2>4, <2>5, <2>6, AbstractFinish
<1>8. ASSUME NEW x \in ran PROVE Abstract!Next
  <2> DEFINE o == Op(b, x)
  <2>1. x \in b.left /\ x \in b.ids /\ x \in Nat /\ Alive(b) /\ ids = {}
    BY <1>1, <1>2, <1>8
  <2>2. ran = {x}
    <3>1. \A i \in ran : i \in Nat /\ i <= x /\ x <= i
      BY <1>1, <1>2, <1>8
    <3>2. \A i \in ran : i = x
      BY <2>1, <3>1
    <3> QED
      BY <1>8, <3>2
  <2>3. applied' = applied \cup {o}
    BY <1>2, <2>2
  <2>4. o \in SentOps
    BY <1>5, <2>1
  <2>5. o.owner = b.owner /\ o.collection = b.collection /\ o.id = x
    BY DEF Op
  <2>6. o \notin applied
    BY <1>1, <2>1 DEF AppliedInv, LeftIsLeft
  <2>7. ASSUME NEW p \in Logged, p.owner = o.owner, p.collection = o.collection, p.id < o.id
        PROVE  p \in applied
    <3>1. /\ p.id \in 0 .. x - 1
          /\ p.id \in 0 .. current_id[b.owner][b.collection] - 1
          /\ p = Current(b.owner, b.collection, p.id)
      BY <1>3, <2>1, <2>5, <2>7, LogType
    <3>2. transactions[b.owner][b.collection][p.id].kind # "dependency"
      BY <2>5, <2>7 DEF LoggedIs, InLog
    <3>3. \/ transactions[b.owner][b.collection][p.id].done
          \/ p.id \in b.undone
      BY <1>2, <2>1, <3>1, <3>2, BeforeRunning
    <3>4. CASE transactions[b.owner][b.collection][p.id].done
      BY <1>1, <3>1, <3>4 DEF AppliedInv, DoneIsApplied
    <3>5. CASE p.id \in b.undone
      <4>1. p.id \notin b.left
        <5>1. p.id \in b.left => x <= p.id
          BY <1>2, <1>8
        <5> QED
          BY <2>1, <3>1, <5>1
      <4>2. Op(b, p.id) \in applied
        BY <1>1, <3>5, <4>1 DEF AppliedInv, LeftIsLeft
      <4>3. Op(b, p.id) = p
        BY <1>1, <1>5, <2>1, <3>1, <3>5
      <4> QED
        BY <4>2, <4>3
    <3> QED
      BY <3>3, <3>4, <3>5
  <2>8. MayCarryOut(o)
    BY <2>6, <2>7 DEF MayCarryOut
  <2>9. DoneOps' = DoneOps
    BY <1>1, <1>3, <2>1 DEF DoneOps
  <2> HIDE DEF o
  <2> QED
    BY <1>3, <1>4, <2>3, <2>4, <2>8, <2>9, AbstractApply
<1> QED
  BY <1>2, <1>6, <1>7, <1>8

\* Every step is a step of OperationLog, or none.
LEMMA NextRefines ==
    ASSUME ~BulkMayFail, TypeOK, TypeOK', SerialState, LoggedIs, LoggedIs', [Next]_vars
    PROVE  Abstract!Next \/ UNCHANGED Abstract!vars
<1> USE DEF SerialState, DependencyInv
<1>1. ASSUME UNCHANGED <<epoch, first_id, current_id, transactions, applied>>
      PROVE  UNCHANGED Abstract!vars
  <2>1. Logged' = Logged
    BY <1>1, SameOps
  <2>2. SentOps' = SentOps /\ DoneOps' = DoneOps
    BY <1>1, <2>1 DEF SentOps, DoneOps
  <2> QED
    BY <1>1, <2>1, <2>2, AbstractStutter
<1>2. ASSUME NEW t \in Owner, Marks(t) PROVE UNCHANGED Abstract!vars
  BY <1>1, <1>2, MarksFacts DEF logVars, poolVars
<1>3. CASE StartBatch
  BY <1>1, <1>3 DEF StartBatch, logVars
<1>4. CASE UNCHANGED vars
  BY <1>1, <1>4 DEF vars
<1> QED
  BY <1>2, <1>3, <1>4, NextSteps, PushesRefine, PassesRefine, SubmitsRefine,
     ReinitRefine, RunsRefine

\* With one database thread, a server that carries out all of a bulk, and owners
\* that nobody uses while update() looks whether to give them up, the
\* transactions implement OperationLog: whatever batches update() cuts a log
\* into, its operations are executed in the order they were pushed and once
\* each, entries are flagged as done after they were executed, and a log is
\* cleared only when all of it is done.
THEOREM TransactionImplementsLog ==
    ASSUME DbThreads = 1, ~BulkMayFail, ~UsedInCheck
    PROVE  Spec => ImplementsLog
<1>1. Init => Abstract!Init
  <2> SUFFICES ASSUME Init PROVE Abstract!Init
    OBVIOUS
  <2>1. TypeOK /\ LoggedIs
    BY InitType, LoggedInLog
  <2>2. \A o : ~InLog(o)
    BY DEF InLog, Init, Operation
  <2>3. Logged = {} /\ applied = {}
    BY <2>1, <2>2 DEF LoggedIs, Init
  <2> QED
    BY <2>3 DEF Abstract!Init, SentOps, DoneOps
<1>2. TypeOK /\ TypeOK' /\ SerialState /\ LoggedIs /\ LoggedIs' /\ [Next]_vars
        => [Abstract!Next]_(Abstract!vars)
  BY NextRefines
<1>3. SerialState => TypeOK
  BY DEF SerialState
<1> QED
  BY <1>1, <1>2, <1>3, LoggedInLog, DependencyInvariant, PTL
     DEF Spec, ImplementsLog, Abstract!Spec

=============================================================================
