--------------------------- MODULE TransactionProofs ---------------------------
(***************************************************************************)
(* Proofs about Transaction, for any owners, collections, database threads *)
(* and bounds.                                                             *)
(***************************************************************************)
EXTENDS Transaction, SequenceTheorems, FiniteSetTheorems, TLAPS

----------------------------------------------------------------------------
(***************************************************************************)
(* Type correctness.                                                       *)
(***************************************************************************)

\* A log without entries.
LEMMA EmptyLog == <<>> \in [0 .. 0 - 1 -> Entry]
<1>1. 0 .. 0 - 1 = {}
  OBVIOUS
<1>2. \A f \in [{} -> Entry] : f = <<>>
  OBVIOUS
<1> QED
  BY <1>1, SMT

\* Push makes a log one entry longer.
LEMMA PushLog ==
    ASSUME TypeOK, NEW t \in Owner, NEW c \in Collection, NEW e \in Entry, Push(t, c, e)
    PROVE  /\ DOMAIN transactions' = Owner
           /\ \A o \in Owner :
               /\ DOMAIN transactions'[o] = Collection
               /\ \A k \in Collection :
                   transactions'[o][k] \in [0 .. current_id'[o][k] - 1 -> Entry]
           /\ current_id' \in [Owner -> [Collection -> Nat]]
           /\ current_id'[t][c] = current_id[t][c] + 1
           /\ \A o \in Owner, k \in Collection : o # t \/ k # c =>
               /\ current_id'[o][k] = current_id[o][k]
               /\ transactions'[o][k] = transactions[o][k]
           /\ transactions'[t][c][current_id[t][c]] = e
           /\ \A id \in 0 .. current_id[t][c] - 1 :
               transactions'[t][c][id] = transactions[t][c][id]
<1> USE DEF TypeOK, Push
<1> DEFINE n == current_id[t][c]
<1> DEFINE log == [id \in 0 .. n |-> IF id = n THEN e ELSE transactions[t][c][id]]
<1>1. n \in Nat
  OBVIOUS
<1>2. log \in [0 .. (n + 1) - 1 -> Entry]
  BY <1>1
<1>3. /\ current_id' \in [Owner -> [Collection -> Nat]]
      /\ current_id'[t][c] = n + 1
      /\ \A o \in Owner, k \in Collection : o # t \/ k # c =>
            current_id'[o][k] = current_id[o][k]
  OBVIOUS
<1>4. /\ DOMAIN transactions' = Owner
      /\ \A o \in Owner : DOMAIN transactions'[o] = Collection
      /\ transactions'[t][c] = log
      /\ \A o \in Owner, k \in Collection : o # t \/ k # c =>
            transactions'[o][k] = transactions[o][k]
  OBVIOUS
<1>5. log[n] = e /\ \A id \in 0 .. n - 1 : log[id] = transactions[t][c][id]
  BY <1>1
<1>6. ASSUME NEW o \in Owner, NEW k \in Collection
      PROVE  transactions'[o][k] \in [0 .. current_id'[o][k] - 1 -> Entry]
  <2>1. CASE o = t /\ k = c
    BY <2>1, <1>2, <1>3, <1>4
  <2>2. CASE o # t \/ k # c
    <3>1. transactions[o][k] \in [0 .. current_id[o][k] - 1 -> Entry]
      OBVIOUS
    <3> HIDE DEF TypeOK, Push, log
    <3> QED
      BY <3>1, <2>2, <1>3, <1>4
  <2> QED
    BY <2>1, <2>2
<1> HIDE DEF log
<1> QED
  BY <1>3, <1>4, <1>5, <1>6

\* What the stores of a pool thread do to the logs: the entries ids of b's log get
\* done = true, some entries may get pending = false, and nothing else changes.
Stores(b, ids) ==
    \A o \in Owner, k \in Collection : \A id \in 0 .. current_id[o][k] - 1 :
        /\ transactions'[o][k][id].kind = transactions[o][k][id].kind
        /\ transactions'[o][k][id].on = transactions[o][k][id].on
        /\ transactions'[o][k][id].pending => transactions[o][k][id].pending
        /\ o = b.owner /\ k = b.collection /\ id \in ids =>
             transactions'[o][k][id].done
        /\ o # b.owner \/ k # b.collection \/ id \notin ids =>
             transactions'[o][k][id].done = transactions[o][k][id].done

\* A store to one entry of a log.
StoreAt(t, c, i, e) == transactions' = [transactions EXCEPT ![t][c][i] = e]

\* A store that leaves an entry in the place of another.
LEMMA StoreLog ==
    ASSUME TypeOK, NEW t \in Owner, NEW c \in Collection,
           NEW i \in 0 .. current_id[t][c] - 1, NEW e \in Entry,
           StoreAt(t, c, i, e)
    PROVE  /\ DOMAIN transactions' = Owner
           /\ \A o \in Owner :
               /\ DOMAIN transactions'[o] = Collection
               /\ \A k \in Collection :
                   transactions'[o][k] \in [0 .. current_id[o][k] - 1 -> Entry]
           /\ \A o \in Owner, k \in Collection : \A id \in 0 .. current_id[o][k] - 1 :
               transactions'[o][k][id] =
                 IF o = t /\ k = c /\ id = i THEN e ELSE transactions[o][k][id]
<1> USE DEF TypeOK, StoreAt
<1> DEFINE log == [transactions[t][c] EXCEPT ![i] = e]
<1>1. /\ DOMAIN transactions' = Owner
      /\ \A o \in Owner : DOMAIN transactions'[o] = Collection
      /\ transactions'[t][c] = log
      /\ \A o \in Owner, k \in Collection : o # t \/ k # c =>
            transactions'[o][k] = transactions[o][k]
  OBVIOUS
<1>2. transactions[t][c] \in [0 .. current_id[t][c] - 1 -> Entry]
  OBVIOUS
<1>3. /\ log \in [0 .. current_id[t][c] - 1 -> Entry]
      /\ \A id \in 0 .. current_id[t][c] - 1 :
            log[id] = IF id = i THEN e ELSE transactions[t][c][id]
  BY <1>2
<1> HIDE DEF log
<1>4. ASSUME NEW o \in Owner, NEW k \in Collection
      PROVE  /\ transactions'[o][k] \in [0 .. current_id[o][k] - 1 -> Entry]
             /\ \A id \in 0 .. current_id[o][k] - 1 :
                  transactions'[o][k][id] =
                    IF o = t /\ k = c /\ id = i THEN e ELSE transactions[o][k][id]
  <2>1. CASE o = t /\ k = c
    BY <2>1, <1>1, <1>3
  <2>2. CASE o # t \/ k # c
    <3>1. transactions[o][k] \in [0 .. current_id[o][k] - 1 -> Entry]
      OBVIOUS
    <3>2. transactions'[o][k] = transactions[o][k]
      BY <2>2, <1>1
    <3> HIDE DEF TypeOK
    <3> QED
      BY <2>2, <3>1, <3>2
  <2> QED
    BY <2>1, <2>2
<1> QED
  BY <1>1, <1>4

\* A store of a pool thread to an entry: it keeps kind and on, sets no pending,
\* and either leaves done as it is or makes an entry of b's log done.
LEMMA StoreStores ==
    ASSUME TypeOK, NEW b, NEW ids, NEW t \in Owner, NEW c \in Collection,
           NEW i \in 0 .. current_id[t][c] - 1, NEW e \in Entry,
           StoreAt(t, c, i, e),
           e.kind = transactions[t][c][i].kind,
           e.on = transactions[t][c][i].on,
           e.pending => transactions[t][c][i].pending,
           \/ ids = {} /\ e.done = transactions[t][c][i].done
           \/ ids = {i} /\ t = b.owner /\ c = b.collection /\ e.done
    PROVE  /\ DOMAIN transactions' = Owner
           /\ \A o \in Owner :
               /\ DOMAIN transactions'[o] = Collection
               /\ \A k \in Collection :
                   transactions'[o][k] \in [0 .. current_id[o][k] - 1 -> Entry]
           /\ Stores(b, ids)
<1>1. /\ DOMAIN transactions' = Owner
      /\ \A o \in Owner :
          /\ DOMAIN transactions'[o] = Collection
          /\ \A k \in Collection :
              transactions'[o][k] \in [0 .. current_id[o][k] - 1 -> Entry]
      /\ \A o \in Owner, k \in Collection : \A id \in 0 .. current_id[o][k] - 1 :
          transactions'[o][k][id] =
            IF o = t /\ k = c /\ id = i THEN e ELSE transactions[o][k][id]
  BY StoreLog
<1>2. ASSUME NEW o \in Owner, NEW k \in Collection,
             NEW id \in 0 .. current_id[o][k] - 1
      PROVE  /\ transactions'[o][k][id].kind = transactions[o][k][id].kind
             /\ transactions'[o][k][id].on = transactions[o][k][id].on
             /\ transactions'[o][k][id].pending => transactions[o][k][id].pending
             /\ o = b.owner /\ k = b.collection /\ id \in ids =>
                  transactions'[o][k][id].done
             /\ o # b.owner \/ k # b.collection \/ id \notin ids =>
                  transactions'[o][k][id].done = transactions[o][k][id].done
  <2>1. transactions'[o][k][id] =
          IF o = t /\ k = c /\ id = i THEN e ELSE transactions[o][k][id]
    BY <1>1
  <2>2. CASE o = t /\ k = c /\ id = i
    BY <2>1, <2>2
  <2>3. CASE ~(o = t /\ k = c /\ id = i)
    BY <2>1, <2>3
  <2> QED
    BY <2>2, <2>3
<1> QED
  BY <1>1, <1>2 DEF Stores

\* The store of done = true to an entry of a batch.
LEMMA DoneLog ==
    ASSUME TypeOK, NEW b \in Batch, NEW i \in 0 .. current_id[b.owner][b.collection] - 1,
           transactions' =
              [transactions EXCEPT ![b.owner][b.collection][i].done = TRUE]
    PROVE  /\ DOMAIN transactions' = Owner
           /\ \A o \in Owner :
               /\ DOMAIN transactions'[o] = Collection
               /\ \A k \in Collection :
                   transactions'[o][k] \in [0 .. current_id[o][k] - 1 -> Entry]
           /\ Stores(b, {i})
<1>1. PICK t, c : t \in Owner /\ c \in Collection /\ t = b.owner /\ c = b.collection
  BY DEF Batch
<1>2. i \in 0 .. current_id[t][c] - 1
  BY <1>1
<1>3. transactions[t][c] \in [0 .. current_id[t][c] - 1 -> Entry]
  BY <1>1 DEF TypeOK
<1>4. transactions[t][c][i] \in Entry
  BY <1>2, <1>3
<1>5. PICK e : e = [transactions[t][c][i] EXCEPT !.done = TRUE]
  OBVIOUS
<1>6. /\ e \in Entry
      /\ e.kind = transactions[t][c][i].kind
      /\ e.on = transactions[t][c][i].on
      /\ e.pending => transactions[t][c][i].pending
      /\ e.done
  BY <1>4, <1>5 DEF Entry
<1>7. StoreAt(t, c, i, e)
  BY <1>1, <1>5 DEF StoreAt
<1> QED
  BY <1>1, <1>2, <1>6, <1>7, StoreStores

\* The store of pending = false to an entry, whichever it hits.
LEMMA PendingLog ==
    ASSUME TypeOK, NEW b, NEW t \in Owner, NEW c \in Collection,
           NEW i \in DOMAIN transactions[t][c],
           transactions' = [transactions EXCEPT ![t][c][i].pending = FALSE]
    PROVE  /\ DOMAIN transactions' = Owner
           /\ \A o \in Owner :
               /\ DOMAIN transactions'[o] = Collection
               /\ \A k \in Collection :
                   transactions'[o][k] \in [0 .. current_id[o][k] - 1 -> Entry]
           /\ Stores(b, {})
<1>1. transactions[t][c] \in [0 .. current_id[t][c] - 1 -> Entry]
  BY DEF TypeOK
<1>2. i \in 0 .. current_id[t][c] - 1 /\ transactions[t][c][i] \in Entry
  BY <1>1
<1>3. PICK e : e = [transactions[t][c][i] EXCEPT !.pending = FALSE]
  OBVIOUS
<1>4. /\ e \in Entry
      /\ e.kind = transactions[t][c][i].kind
      /\ e.on = transactions[t][c][i].on
      /\ ~e.pending
      /\ e.done = transactions[t][c][i].done
  BY <1>2, <1>3 DEF Entry
<1>5. StoreAt(t, c, i, e)
  BY <1>3 DEF StoreAt
<1> QED
  BY <1>2, <1>4, <1>5, StoreStores

\* The counter of eight bits stays within its width.
LEMMA ModuloType == \A n \in Int : n % CounterModulus \in 0 .. CounterModulus - 1
BY ConstantsAssumption

\* What user code pushes is an entry.
LEMMA NewEntryType ==
    /\ NewEntry("write", <<>>) \in Entry
    /\ NewEntry("callable", <<>>) \in Entry
    /\ \A on \in Operation : NewEntry("dependency", on) \in Entry
BY DEF NewEntry, Entry, Kinds

\* The ids get_pending_operations collects are ids of the log, and finitely many.
LEMMA TakenIds ==
    ASSUME TypeOK, NEW t \in Owner, NEW c \in Collection,
           NEW end \in first_id[t][c] .. current_id[t][c]
    PROVE  /\ Taken(t, c, end) \subseteq first_id[t][c] .. end - 1
           /\ end \in Nat
           /\ Cardinality(Callables(t, c, Taken(t, c, end))) \in Nat
<1>1. first_id[t][c] \in Nat /\ current_id[t][c] \in Nat
  BY DEF TypeOK
<1>2. end \in Nat
  BY <1>1
<1>3. Taken(t, c, end) \subseteq first_id[t][c] .. end - 1
  BY DEF Taken
<1>4. IsFiniteSet(first_id[t][c] .. end - 1)
  <2>1. first_id[t][c] \in Int /\ end - 1 \in Int
    BY <1>1, <1>2
  <2> QED
    BY <2>1, FS_Interval
<1>5. IsFiniteSet(Callables(t, c, Taken(t, c, end)))
  BY <1>3, <1>4, FS_Subset DEF Callables
<1> QED
  BY <1>2, <1>3, <1>5, FS_CardinalityType

\* update() at a collection is at one of the owner's.
LEMMA CursorCollection ==
    ASSUME TypeOK, NEW t \in Owner, cursor[t] > 0
    PROVE  Collections[cursor[t]] \in Collection
<1>1. cursor[t] \in 1 .. Len(Collections)
  BY DEF TypeOK
<1> QED
  BY <1>1 DEF Collection

\* The variables have their types in the initial state.
LEMMA InitType == Init => TypeOK
<1> SUFFICES ASSUME Init PROVE TypeOK
  OBVIOUS
<1>1. \A t \in Owner, c \in Collection :
        transactions[t][c] \in [0 .. current_id[t][c] - 1 -> Entry]
  BY EmptyLog DEF Init
<1>2. <<>> \in Seq(Batch) /\ 0 \in 0 .. CounterModulus - 1 /\ 0 \in 0 .. Len(Collections)
  BY ConstantsAssumption
<1>3. /\ pending_callables \in [Owner -> 0 .. CounterModulus - 1]
      /\ checked \in [Owner -> 0 .. Len(Collections)]
      /\ cursor \in [Owner -> 0 .. Len(Collections)]
  BY <1>2 DEF Init
<1> QED
  BY <1>1, <1>2, <1>3 DEF Init, TypeOK

\* update() goes on to a collection, or ends.
LEMMA NextCursorType ==
    ASSUME TypeOK, NEW t \in Owner
    PROVE  NextCursor(t) \in 0 .. Len(Collections)
<1>1. cursor[t] \in 0 .. Len(Collections) /\ Len(Collections) \in Nat
  BY ConstantsAssumption DEF TypeOK
<1> QED
  BY <1>1 DEF NextCursor

\* Flagging entries of a log as pending changes nothing else.
LEMMA FlagPendingLog ==
    ASSUME TypeOK, NEW t \in Owner, NEW c \in Collection, NEW ids,
           transactions' = FlagPending(t, c, ids)
    PROVE  /\ DOMAIN transactions' = Owner
           /\ \A o \in Owner :
               /\ DOMAIN transactions'[o] = Collection
               /\ \A k \in Collection :
                   transactions'[o][k] \in [0 .. current_id[o][k] - 1 -> Entry]
           /\ \A o \in Owner, k \in Collection : \A id \in 0 .. current_id[o][k] - 1 :
               /\ transactions'[o][k][id].kind = transactions[o][k][id].kind
               /\ transactions'[o][k][id].done = transactions[o][k][id].done
               /\ o = t /\ k = c /\ id \in ids => transactions'[o][k][id].pending
               /\ o # t \/ k # c \/ id \notin ids =>
                    transactions'[o][k][id] = transactions[o][k][id]
<1> USE DEF TypeOK
<1> DEFINE log == [id \in DOMAIN transactions[t][c] |->
                    IF id \in ids
                    THEN [transactions[t][c][id] EXCEPT !.pending = TRUE]
                    ELSE transactions[t][c][id]]
<1>1. /\ DOMAIN transactions' = Owner
      /\ \A o \in Owner : DOMAIN transactions'[o] = Collection
      /\ transactions'[t][c] = log
      /\ \A o \in Owner, k \in Collection : o # t \/ k # c =>
            transactions'[o][k] = transactions[o][k]
  BY DEF FlagPending
<1>2. /\ DOMAIN transactions[t][c] = 0 .. current_id[t][c] - 1
      /\ \A id \in 0 .. current_id[t][c] - 1 : transactions[t][c][id] \in Entry
  OBVIOUS
<1>3. ASSUME NEW id \in 0 .. current_id[t][c] - 1
      PROVE  /\ log[id] \in Entry
             /\ log[id].kind = transactions[t][c][id].kind
             /\ log[id].done = transactions[t][c][id].done
             /\ id \in ids => log[id].pending
             /\ id \notin ids => log[id] = transactions[t][c][id]
  BY <1>2 DEF Entry
<1>4. log \in [0 .. current_id[t][c] - 1 -> Entry]
  BY <1>2, <1>3
<1> HIDE DEF log
<1>5. ASSUME NEW o \in Owner, NEW k \in Collection
      PROVE  transactions'[o][k] \in [0 .. current_id[o][k] - 1 -> Entry]
  <2>1. CASE o = t /\ k = c
    BY <2>1, <1>1, <1>4
  <2>2. CASE o # t \/ k # c
    BY <2>2, <1>1
  <2> QED
    BY <2>1, <2>2
<1>6. ASSUME NEW o \in Owner, NEW k \in Collection, NEW id \in 0 .. current_id[o][k] - 1
      PROVE  /\ transactions'[o][k][id].kind = transactions[o][k][id].kind
             /\ transactions'[o][k][id].done = transactions[o][k][id].done
             /\ o = t /\ k = c /\ id \in ids => transactions'[o][k][id].pending
             /\ o # t \/ k # c \/ id \notin ids =>
                  transactions'[o][k][id] = transactions[o][k][id]
  <2>1. CASE o = t /\ k = c
    BY <2>1, <1>1, <1>3
  <2>2. CASE o # t \/ k # c
    BY <2>2, <1>1
  <2> QED
    BY <2>1, <2>2
<1> QED
  BY <1>1, <1>5, <1>6

\* Every step keeps the types of the variables.
LEMMA NextType == TypeOK /\ [Next]_vars => TypeOK'
<1> SUFFICES ASSUME TypeOK, [Next]_vars PROVE TypeOK'
  OBVIOUS
<1> USE DEF TypeOK, logVars, timeVars, lifeVars, poolVars
<1>1. ASSUME NEW t \in Owner, NEW c \in Collection, PushOperation(t, c)
      PROVE  TypeOK'
  <2>1. NewEntry("write", <<>>) \in Entry
    BY NewEntryType
  <2>2. Push(t, c, NewEntry("write", <<>>))
    BY <1>1 DEF PushOperation
  <2>3. pending_callables' \in [Owner -> 0 .. CounterModulus - 1]
    BY <1>1, ConstantsAssumption DEF PushOperation, TypeOK
  <2> HIDE DEF TypeOK
  <2>4. /\ DOMAIN transactions' = Owner
        /\ \A u \in Owner :
            /\ DOMAIN transactions'[u] = Collection
            /\ \A k \in Collection :
                transactions'[u][k] \in [0 .. current_id'[u][k] - 1 -> Entry]
        /\ current_id' \in [Owner -> [Collection -> Nat]]
    BY <2>1, <2>2, PushLog
  <2>5. UNCHANGED <<present, epoch, first_id, since_last_execution, flagged,
                    scheduled, checked, cursor, queue, running, applied>>
    BY <2>2 DEF Push, poolVars
  <2> QED
    BY <2>3, <2>4, <2>5 DEF TypeOK
<1>2. ASSUME NEW t \in Owner, NEW c \in Collection, PushCallable(t, c)
      PROVE  TypeOK'
  <2>1. NewEntry("callable", <<>>) \in Entry
    BY NewEntryType
  <2>2. Push(t, c, NewEntry("callable", <<>>))
    BY <1>2 DEF PushCallable
  <2>3. pending_callables' \in [Owner -> 0 .. CounterModulus - 1]
    BY <1>2, ConstantsAssumption DEF PushCallable, TypeOK
  <2> HIDE DEF TypeOK
  <2>4. /\ DOMAIN transactions' = Owner
        /\ \A u \in Owner :
            /\ DOMAIN transactions'[u] = Collection
            /\ \A k \in Collection :
                transactions'[u][k] \in [0 .. current_id'[u][k] - 1 -> Entry]
        /\ current_id' \in [Owner -> [Collection -> Nat]]
    BY <2>1, <2>2, PushLog
  <2>5. UNCHANGED <<present, epoch, first_id, since_last_execution, flagged,
                    scheduled, checked, cursor, queue, running, applied>>
    BY <2>2 DEF Push, poolVars
  <2> QED
    BY <2>3, <2>4, <2>5 DEF TypeOK
<1>3. ASSUME NEW t \in Owner, NEW c \in Collection, NEW o \in Owner,
             NEW id \in 0 .. MaxSlots - 1, PushDependency(t, c, o, id)
      PROVE  TypeOK'
  <2> DEFINE on == [owner |-> o, epoch |-> epoch[o], collection |-> c, id |-> id]
  <2>0. on \in Operation
    BY ConstantsAssumption DEF Operation
  <2>1. NewEntry("dependency", on) \in Entry
    BY NewEntryType, <2>0
  <2>2. Push(t, c, NewEntry("dependency", on))
    BY <1>3 DEF PushDependency
  <2>3. pending_callables' \in [Owner -> 0 .. CounterModulus - 1]
    BY <1>3, ConstantsAssumption DEF PushDependency, TypeOK
  <2> HIDE DEF TypeOK
  <2>4. /\ DOMAIN transactions' = Owner
        /\ \A u \in Owner :
            /\ DOMAIN transactions'[u] = Collection
            /\ \A k \in Collection :
                transactions'[u][k] \in [0 .. current_id'[u][k] - 1 -> Entry]
        /\ current_id' \in [Owner -> [Collection -> Nat]]
    BY <2>1, <2>2, PushLog
  <2>5. UNCHANGED <<present, epoch, first_id, since_last_execution, flagged,
                    scheduled, checked, cursor, queue, running, applied>>
    BY <2>2 DEF Push, poolVars
  <2> QED
    BY <2>3, <2>4, <2>5 DEF TypeOK
<1>4. ASSUME NEW t \in Owner, FlagDeletion(t)
      PROVE  TypeOK'
  BY <1>4 DEF FlagDeletion
<1>5. ASSUME NEW t \in Owner, UnflagDeletion(t)
      PROVE  TypeOK'
  BY <1>5 DEF UnflagDeletion
<1>6. ASSUME NEW t \in Owner, Remove(t)
      PROVE  TypeOK'
  BY <1>6 DEF Remove
<1>7. ASSUME NEW t \in Owner, Reinit(t)
      PROVE  TypeOK'
  <2>1. \A o \in Owner :
          /\ DOMAIN transactions'[o] = Collection
          /\ \A k \in Collection :
              transactions'[o][k] \in [0 .. current_id'[o][k] - 1 -> Entry]
    BY <1>7, EmptyLog DEF Reinit
  <2>2. DOMAIN transactions' = Owner
    BY <1>7 DEF Reinit
  <2>3. 0 \in 0 .. CounterModulus - 1
    BY ConstantsAssumption
  <2>4. pending_callables' \in [Owner -> 0 .. CounterModulus - 1]
    BY <1>7, <2>3 DEF Reinit
  <2>5. /\ epoch' \in [Owner -> Nat]
        /\ first_id' \in [Owner -> [Collection -> Nat]]
        /\ current_id' \in [Owner -> [Collection -> Nat]]
        /\ since_last_execution' \in [Owner -> Nat]
    BY <1>7 DEF Reinit
  <2> QED
    BY <1>7, <2>1, <2>2, <2>4, <2>5 DEF Reinit
<1>8. ASSUME NEW t \in Owner, UpdateSchedules(t)
      PROVE  TypeOK'
  BY <1>8, ConstantsAssumption DEF UpdateSchedules
<1>9. ASSUME NEW t \in Owner, NEW d \in Diffs, UpdateIdle(t, d)
      PROVE  TypeOK'
  <2>1. since_last_execution' \in [Owner -> Nat]
    BY <1>9, ConstantsAssumption DEF UpdateIdle
  <2>2. checked' \in [Owner -> 0 .. Len(Collections)]
    BY <1>9, ConstantsAssumption DEF UpdateIdle
  <2> QED
    BY <1>9, <2>1, <2>2 DEF UpdateIdle
<1>10. ASSUME NEW t \in Owner, NEW d \in Diffs, UpdateStart(t, d)
      PROVE  TypeOK'
  <2>1. since_last_execution' \in [Owner -> Nat]
    BY <1>10 DEF UpdateStart
  <2>2. (IF Len(Collections) = 0 THEN 0 ELSE 1) \in 0 .. Len(Collections)
    BY ConstantsAssumption
  <2>3. cursor' \in [Owner -> 0 .. Len(Collections)]
    BY <1>10, <2>2 DEF UpdateStart
  <2>4. checked' \in [Owner -> 0 .. Len(Collections)]
    BY <1>10, ConstantsAssumption DEF UpdateStart
  <2> QED
    BY <1>10, <2>1, <2>3, <2>4 DEF UpdateStart
<1>11. ASSUME NEW t \in Owner, SkipCollection(t)
      PROVE  TypeOK'
  <2>1. cursor' \in [Owner -> 0 .. Len(Collections)]
    BY <1>11, NextCursorType DEF SkipCollection
  <2> QED
    BY <1>11, <2>1 DEF SkipCollection
<1>12. ASSUME NEW t \in Owner, NothingPending(t)
      PROVE  TypeOK'
  <2> DEFINE c == Collections[cursor[t]]
  <2>1. c \in Collection
    BY <1>12, CursorCollection DEF NothingPending
  <2>2. PICK end \in first_id[t][c] .. current_id[t][c] :
          first_id' = [first_id EXCEPT ![t][c] = end]
    BY <1>12 DEF NothingPending
  <2>3. end \in Nat
    BY <2>1
  <2>4. first_id' \in [Owner -> [Collection -> Nat]]
    BY <2>1, <2>2, <2>3
  <2>5. cursor' \in [Owner -> 0 .. Len(Collections)]
    <3>1. 0 \in 0 .. Len(Collections)
      BY ConstantsAssumption
    <3>2. cursor' = [cursor EXCEPT ![t] = 0]
      BY <1>12 DEF NothingPending
    <3> QED
      BY <3>1, <3>2
  <2>6. UNCHANGED <<present, flagged, scheduled, checked, epoch, current_id, transactions,
                    since_last_execution, pending_callables, queue, running, applied>>
    BY <1>12 DEF NothingPending
  <2> QED
    BY <2>4, <2>5, <2>6
<1>13. ASSUME NEW t \in Owner, SendBatch(t)
      PROVE  TypeOK'
  <2> DEFINE c == Collections[cursor[t]]
  <2>1. c \in Collection
    BY <1>13, CursorCollection DEF SendBatch
  <2>2. PICK end \in first_id[t][c] .. current_id[t][c] :
          LET ids == Taken(t, c, end) IN
          /\ first_id' = [first_id EXCEPT ![t][c] = end]
          /\ transactions' = FlagPending(t, c, ids)
          /\ pending_callables' = [pending_callables EXCEPT ![t] =
               (@ - Cardinality(Callables(t, c, ids))) % CounterModulus]
          /\ queue' = IF Connected
                      THEN Append(queue,
                             [owner |-> t, epoch |-> epoch[t], collection |-> c,
                              callable |-> Callables(t, c, ids) # {},
                              ids |-> ids, left |-> ids, undone |-> ids])
                      ELSE queue
    BY <1>13 DEF SendBatch
  <2> DEFINE ids == Taken(t, c, end)
  <2>3. /\ ids \subseteq first_id[t][c] .. end - 1
        /\ end \in Nat
        /\ Cardinality(Callables(t, c, ids)) \in Nat
    BY <2>1, TakenIds
  <2>4. ids \subseteq Nat
    BY <2>1, <2>3
  <2> HIDE DEF ids
  <2>5. first_id' \in [Owner -> [Collection -> Nat]]
    BY <2>1, <2>2, <2>3
  <2>6. pending_callables' \in [Owner -> 0 .. CounterModulus - 1]
    <3>1. pending_callables[t] \in Int
      OBVIOUS
    <3>2. pending_callables[t] - Cardinality(Callables(t, c, ids)) \in Int
      BY <2>3, <3>1
    <3>3. (pending_callables[t] - Cardinality(Callables(t, c, ids))) % CounterModulus
            \in 0 .. CounterModulus - 1
      BY <3>2, ModuloType
    <3> QED
      BY <2>2, <3>3 DEF ids
  <2>7. queue' \in Seq(Batch)
    <3>1. [owner |-> t, epoch |-> epoch[t], collection |-> c,
           callable |-> Callables(t, c, ids) # {}, ids |-> ids, left |-> ids, undone |-> ids] \in Batch
      BY <2>1, <2>4 DEF Batch
    <3> QED
      BY <2>2, <3>1 DEF ids
  <2>8. cursor' \in [Owner -> 0 .. Len(Collections)]
    BY <1>13, NextCursorType DEF SendBatch
  <2>9. UNCHANGED <<present, flagged, scheduled, checked, epoch, current_id,
                    since_last_execution, running, applied>>
    BY <1>13 DEF SendBatch
  <2> HIDE DEF TypeOK
  <2>10. /\ DOMAIN transactions' = Owner
         /\ \A o \in Owner :
             /\ DOMAIN transactions'[o] = Collection
             /\ \A k \in Collection :
                 transactions'[o][k] \in [0 .. current_id[o][k] - 1 -> Entry]
    BY <2>1, <2>2, <2>4, FlagPendingLog DEF ids
  <2> QED
    BY <2>5, <2>6, <2>7, <2>8, <2>9, <2>10 DEF TypeOK
<1>14. CASE StartBatch
  <2>1. Head(queue) \in Batch /\ Tail(queue) \in Seq(Batch)
    BY <1>14 DEF StartBatch
  <2> QED
    BY <1>14, <2>1 DEF StartBatch
<1>15. ASSUME NEW b \in running, BulkApply(b)
      PROVE  TypeOK'
  <2>1. PICK id \in b.left :
          /\ applied' = applied \cup {Op(b, id)}
          /\ running' = (running \ {b}) \cup {[b EXCEPT !.left = @ \ {id}]}
    BY <1>15 DEF BulkApply
  <2>2. b \in Batch
    OBVIOUS
  <2>3. Op(b, id) \in Operation /\ [b EXCEPT !.left = @ \ {id}] \in Batch
    BY <2>2 DEF Batch, Operation, Op
  <2>4. running' \subseteq Batch /\ applied' \subseteq Operation
    BY <2>1, <2>3
  <2> QED
    BY <1>15, <2>4 DEF BulkApply
<1>16. ASSUME NEW b \in running, RunCallable(b)
      PROVE  TypeOK'
  <2>1. PICK id \in b.left :
          /\ applied' = applied \cup {Op(b, id)}
          /\ running' = (running \ {b}) \cup {[b EXCEPT !.left = @ \ {id}]}
    BY <1>16 DEF RunCallable
  <2>2. b \in Batch
    OBVIOUS
  <2>3. Op(b, id) \in Operation /\ [b EXCEPT !.left = @ \ {id}] \in Batch
    BY <2>2 DEF Batch, Operation, Op
  <2>4. running' \subseteq Batch /\ applied' \subseteq Operation
    BY <2>1, <2>3
  <2> QED
    BY <1>16, <2>4 DEF RunCallable
<1>17. ASSUME NEW b \in running, FlagDone(b)
      PROVE  TypeOK'
  <2> HIDE DEF TypeOK
  <2>1. PICK id \in b.undone :
          /\ transactions' =
                [transactions EXCEPT ![b.owner][b.collection][id].done = TRUE]
          /\ running' = (running \ {b}) \cup
                {[b EXCEPT !.undone = @ \ {id},
                           !.left = IF b.callable THEN @ ELSE {}]}
    BY <1>17 DEF FlagDone
  <2>2. b \in Batch
    BY DEF TypeOK
  <2>3. [b EXCEPT !.undone = @ \ {id}, !.left = IF b.callable THEN @ ELSE {}] \in Batch
    BY <2>2 DEF Batch
  <2>4. PICK t, c : t = b.owner /\ c = b.collection /\ t \in Owner /\ c \in Collection
    BY <2>2 DEF Batch
  <2>5. /\ DOMAIN transactions' = Owner
        /\ \A o \in Owner :
            /\ DOMAIN transactions'[o] = Collection
            /\ \A k \in Collection :
                transactions'[o][k] \in [0 .. current_id[o][k] - 1 -> Entry]
    <3>1. CASE id \in DOMAIN transactions[t][c]
      <4>1. id \in 0 .. current_id[b.owner][b.collection] - 1
        BY <3>1, <2>4 DEF TypeOK
      <4> QED
        BY <4>1, <2>1, <2>2, DoneLog
    <3>2. CASE id \notin DOMAIN transactions[t][c]
      <4>1. PICK log : log = [transactions[t][c] EXCEPT ![id].done = TRUE]
        OBVIOUS
      <4>2. log = transactions[t][c]
        BY <3>2, <4>1, <2>4 DEF TypeOK
      <4>3. transactions' = [transactions EXCEPT ![t][c] = log]
        BY <4>1, <2>1, <2>4
      <4>4. /\ DOMAIN transactions' = Owner
            /\ \A o \in Owner :
                /\ DOMAIN transactions'[o] = Collection
                /\ \A k \in Collection : transactions'[o][k] = transactions[o][k]
        BY <4>2, <4>3, <2>4 DEF TypeOK
      <4> QED
        BY <4>4 DEF TypeOK
    <3> QED
      BY <3>1, <3>2
  <2>6. running' \subseteq Batch
    BY <2>1, <2>3 DEF TypeOK
  <2> QED
    BY <1>17, <2>5, <2>6 DEF FlagDone, TypeOK
<1>18. ASSUME NEW b \in running, ClearPending(b)
      PROVE  TypeOK'
  <2> HIDE DEF TypeOK
  <2>1. PICK id \in b.ids \ b.undone :
          /\ \/ UNCHANGED transactions
             \/ \E t \in Owner, c \in Collection : \E i \in DOMAIN transactions[t][c] :
                  transactions' = [transactions EXCEPT ![t][c][i].pending = FALSE]
          /\ running' = (running \ {b}) \cup
                (IF b.ids = {id} THEN {} ELSE {[b EXCEPT !.ids = @ \ {id}]})
    BY <1>18 DEF ClearPending
  <2>2. b \in Batch
    BY DEF TypeOK
  <2>3. [b EXCEPT !.ids = @ \ {id}] \in Batch
    BY <2>2 DEF Batch
  <2>4. /\ DOMAIN transactions' = Owner
        /\ \A o \in Owner :
            /\ DOMAIN transactions'[o] = Collection
            /\ \A k \in Collection :
                transactions'[o][k] \in [0 .. current_id[o][k] - 1 -> Entry]
    <3>1. CASE UNCHANGED transactions
      BY <3>1 DEF TypeOK
    <3>2. CASE ~UNCHANGED transactions
      BY <3>2, <2>1, PendingLog
    <3> QED
      BY <3>1, <3>2
  <2>5. running' \subseteq Batch
    BY <2>1, <2>3 DEF TypeOK
  <2> QED
    BY <1>18, <2>4, <2>5 DEF ClearPending, TypeOK
<1>19. ASSUME NEW t \in Owner, CheckCollection(t)
      PROVE  TypeOK'
  <2>1. checked[t] + 1 \in 0 .. Len(Collections)
    <3>1. checked[t] \in Nat /\ Len(Collections) \in Nat
      BY ConstantsAssumption
    <3>2. checked[t] + 1 < Len(Collections)
      BY <1>19 DEF CheckCollection
    <3> HIDE DEF TypeOK
    <3> QED
      BY <3>1, <3>2
  <2> QED
    BY <1>19, <2>1 DEF CheckCollection
<1>20. CASE UNCHANGED vars
  BY <1>20 DEF vars
<1> QED
  BY <1>1, <1>2, <1>3, <1>4, <1>5, <1>6, <1>7, <1>8, <1>9, <1>10, <1>11,
     <1>12, <1>13, <1>14, <1>15, <1>16, <1>17, <1>18, <1>19, <1>20
     DEF Next, User, UpdateHead, UpdateBody, Execute

\* The variables of the transactions always have their types.
THEOREM TypeCorrect == Spec => []TypeOK
<1> QED
  BY InitType, NextType, PTL DEF Spec

----------------------------------------------------------------------------
(***************************************************************************)
(* Frontier and SubmittedOnce.                                             *)
(***************************************************************************)

\* What a batch has to do with the log it was made from, if that log still
\* exists. A batch of an earlier epoch never becomes alive again.
BatchInv(b) ==
    /\ b.ids # {}
    /\ b.left \subseteq b.undone
    /\ b.undone \subseteq b.ids
    /\ b.epoch <= epoch[b.owner]
    /\ Alive(b) =>
        \A id \in b.ids :
            /\ id < first_id[b.owner][b.collection]
            /\ transactions[b.owner][b.collection][id].kind =
                  IF b.callable THEN "callable" ELSE "write"
            /\ id \in b.undone =>
                  ~transactions[b.owner][b.collection][id].done

Apart == \A a, b \in InFlight : a # b /\ SameLog(a, b) => a.ids \cap b.ids = {}

QueueInv ==
    /\ \A j, k \in 1 .. Len(queue) : queue[j] = queue[k] => j = k
    /\ \A k \in 1 .. Len(queue) : queue[k] \notin running

SubmitInv ==
    /\ Frontier
    /\ \A b \in InFlight : BatchInv(b)
    /\ Apart
    /\ QueueInv

\* Batches in flight are batches.
LEMMA InFlightType == TypeOK => InFlight \subseteq Batch
BY DEF TypeOK, InFlight

\* No operation has been sent in the initial state.
LEMMA InitSubmit == Init => SubmitInv
<1> SUFFICES ASSUME Init PROVE SubmitInv
  OBVIOUS
<1>1. InFlight = {} /\ Len(queue) = 0
  BY DEF Init, InFlight
<1>2. Frontier
  BY DEF Init, Frontier
<1> QED
  BY <1>1, <1>2 DEF SubmitInv, Apart, QueueInv

\* A batch knows nothing but the log it was made from: what keeps the kind and
\* done of its entries, and lets first_id only grow, keeps its invariant.
LEMMA BatchKeeps ==
    ASSUME TypeOK, TypeOK', NEW b \in Batch, BatchInv(b), UNCHANGED epoch,
           first_id[b.owner][b.collection] <= first_id'[b.owner][b.collection],
           Alive(b) => \A id \in b.ids :
              /\ transactions'[b.owner][b.collection][id].kind =
                   transactions[b.owner][b.collection][id].kind
              /\ transactions'[b.owner][b.collection][id].done =
                   transactions[b.owner][b.collection][id].done
    PROVE  BatchInv(b)'
<1>1. /\ b.owner \in Owner /\ b.collection \in Collection /\ b.ids \subseteq Nat
  BY DEF Batch
<1>2. /\ first_id[b.owner][b.collection] \in Nat
      /\ first_id'[b.owner][b.collection] \in Nat
  BY <1>1 DEF TypeOK
<1>3. Alive(b)' <=> Alive(b)
  BY DEF Alive
<1> QED
  BY <1>1, <1>2, <1>3 DEF BatchInv

\* A push leaves what was sent alone.
LEMMA PushSubmit ==
    ASSUME TypeOK, TypeOK', SubmitInv, NEW t \in Owner, NEW c \in Collection,
           NEW kind \in Kinds, NEW on, NewEntry(kind, on) \in Entry,
           Push(t, c, NewEntry(kind, on))
    PROVE  SubmitInv'
<1> DEFINE e == NewEntry(kind, on)
<1>1. /\ current_id'[t][c] = current_id[t][c] + 1
      /\ \A o \in Owner, k \in Collection : o # t \/ k # c =>
          /\ current_id'[o][k] = current_id[o][k]
          /\ transactions'[o][k] = transactions[o][k]
      /\ transactions'[t][c][current_id[t][c]] = e
      /\ \A id \in 0 .. current_id[t][c] - 1 :
          transactions'[t][c][id] = transactions[t][c][id]
  BY PushLog
<1>2. UNCHANGED <<epoch, first_id, queue, running>>
  BY DEF Push, poolVars
<1>3. ~e.pending /\ ~e.done
  BY DEF NewEntry
<1> HIDE DEF e
<1>4. Frontier'
  <2> SUFFICES ASSUME NEW o \in Owner, NEW k \in Collection
               PROVE  /\ first_id[o][k] <= current_id'[o][k]
                      /\ \A id \in first_id[o][k] .. current_id'[o][k] - 1 :
                            /\ ~transactions'[o][k][id].pending
                            /\ ~transactions'[o][k][id].done
    BY <1>2 DEF Frontier
  <2>1. first_id[o][k] \in Nat /\ current_id[o][k] \in Nat
    BY DEF TypeOK
  <2>2. /\ first_id[o][k] <= current_id[o][k]
        /\ \A id \in first_id[o][k] .. current_id[o][k] - 1 :
              ~transactions[o][k][id].pending /\ ~transactions[o][k][id].done
    BY DEF SubmitInv, Frontier
  <2>3. CASE o # t \/ k # c
    BY <2>2, <2>3, <1>1
  <2>4. CASE o = t /\ k = c
    BY <2>1, <2>2, <2>4, <1>1, <1>3
  <2> QED
    BY <2>3, <2>4
<1>5. InFlight' = InFlight
  BY <1>2 DEF InFlight
<1>6. ASSUME NEW b \in InFlight PROVE BatchInv(b)'
  <2>1. b \in Batch /\ BatchInv(b)
    BY InFlightType DEF SubmitInv
  <2>2. b.owner \in Owner /\ b.collection \in Collection /\ b.ids \subseteq Nat
    BY <2>1 DEF Batch
  <2>3. /\ first_id[b.owner][b.collection] \in Nat
        /\ current_id[b.owner][b.collection] \in Nat
        /\ first_id[b.owner][b.collection] <= current_id[b.owner][b.collection]
    BY <2>2 DEF TypeOK, SubmitInv, Frontier
  <2>4. ASSUME Alive(b), NEW id \in b.ids
        PROVE  transactions'[b.owner][b.collection][id] =
                 transactions[b.owner][b.collection][id]
    <3>1. id \in 0 .. current_id[b.owner][b.collection] - 1
      BY <2>1, <2>2, <2>3, <2>4 DEF BatchInv
    <3> QED
      BY <3>1, <2>2, <1>1
  <2> QED
    BY <2>1, <2>3, <2>4, <1>2, BatchKeeps
<1> QED
  BY <1>2, <1>4, <1>5, <1>6 DEF SubmitInv, Apart, SameLog, QueueInv

\* A scan collects entries of one kind.
LEMMA TakenOneKind ==
    ASSUME TypeOK, NEW t \in Owner, NEW c \in Collection,
           NEW end \in first_id[t][c] .. current_id[t][c], ScanEnds(t, c, end),
           NEW i \in Taken(t, c, end), NEW j \in Taken(t, c, end)
    PROVE  transactions[t][c][i].kind = transactions[t][c][j].kind
<1>1. first_id[t][c] \in Nat /\ current_id[t][c] \in Nat
  BY DEF TypeOK
<1>2. ASSUME NEW x \in Taken(t, c, end), NEW y \in Taken(t, c, end), x < y
      PROVE  transactions[t][c][x].kind = transactions[t][c][y].kind
  <2>1. x \in Taken(t, c, y)
    BY <1>1, <1>2 DEF Taken
  <2>2. ~Breaks(t, c, y)
    BY DEF ScanEnds, Taken
  <2> QED
    BY <2>1, <2>2 DEF Breaks, Taken
<1>3. i \in Int /\ j \in Int
  BY <1>1 DEF Taken
<1>4. i < j \/ j < i \/ i = j
  BY <1>3
<1> QED
  BY <1>2, <1>4

\* The counters and the entries of a log.
LEMMA LogType ==
    ASSUME TypeOK, NEW t \in Owner, NEW c \in Collection
    PROVE  /\ epoch[t] \in Nat
           /\ first_id[t][c] \in Nat
           /\ current_id[t][c] \in Nat
           /\ \A id \in 0 .. current_id[t][c] - 1 : transactions[t][c][id] \in Entry
<1>1. epoch[t] \in Nat /\ first_id[t][c] \in Nat /\ current_id[t][c] \in Nat
  BY DEF TypeOK
<1>2. transactions[t][c] \in [0 .. current_id[t][c] - 1 -> Entry]
  BY DEF TypeOK
<1> QED
  BY <1>1, <1>2

\* SendBatch, with the collection, the end of the scan, the ids it collects and
\* the batch n it sends by name.
Sends(t, c, end, ids, n) ==
    /\ end \in first_id[t][c] .. current_id[t][c]
    /\ ScanEnds(t, c, end)
    /\ ids = Taken(t, c, end)
    /\ ids # {}
    /\ n = [owner |-> t, epoch |-> epoch[t], collection |-> c,
            callable |-> Callables(t, c, ids) # {}, ids |-> ids, left |-> ids, undone |-> ids]
    /\ first_id' = [first_id EXCEPT ![t][c] = end]
    /\ transactions' = FlagPending(t, c, ids)
    /\ queue' = IF Connected THEN Append(queue, n) ELSE queue
    /\ UNCHANGED <<epoch, current_id, running>>

\* A batch n that is sent is apart from the ones in flight, which hold entries
\* below first_id only.
LEMMA SendSubmit ==
    ASSUME TypeOK, TypeOK', SubmitInv, NEW t \in Owner, NEW c \in Collection,
           NEW end, NEW ids, NEW n, Sends(t, c, end, ids, n)
    PROVE  SubmitInv'
<1>1. /\ epoch[t] \in Nat
      /\ first_id[t][c] \in Nat
      /\ current_id[t][c] \in Nat
      /\ \A id \in 0 .. current_id[t][c] - 1 : transactions[t][c][id] \in Entry
  BY LogType
<1>2. /\ end \in first_id[t][c] .. current_id[t][c]
      /\ ids = Taken(t, c, end)
      /\ ScanEnds(t, c, end)
  BY DEF Sends
<1>3. UNCHANGED <<epoch, current_id, running>>
  BY DEF Sends
<1>4. /\ end \in Nat
      /\ first_id[t][c] <= end
      /\ end <= current_id[t][c]
      /\ ids \subseteq first_id[t][c] .. end - 1
      /\ ids \subseteq Nat
  <2>1. ids \subseteq first_id[t][c] .. end - 1 /\ end \in Nat
    BY <1>2, TakenIds
  <2> QED
    BY <2>1, <1>1, <1>2
<1>5. /\ \A id \in ids : /\ transactions[t][c][id].kind # "dependency"
                         /\ ~transactions[t][c][id].done
      /\ \A i, j \in ids : transactions[t][c][i].kind = transactions[t][c][j].kind
  BY <1>2, TakenOneKind DEF Taken
<1>6. /\ first_id'[t][c] = end
      /\ \A o \in Owner, k \in Collection : o # t \/ k # c =>
            first_id'[o][k] = first_id[o][k]
  BY DEF TypeOK, Sends
<1>7. \A o \in Owner, k \in Collection : \A id \in 0 .. current_id[o][k] - 1 :
        /\ transactions'[o][k][id].kind = transactions[o][k][id].kind
        /\ transactions'[o][k][id].done = transactions[o][k][id].done
        /\ o = t /\ k = c /\ id \in ids => transactions'[o][k][id].pending
        /\ o # t \/ k # c \/ id \notin ids =>
             transactions'[o][k][id] = transactions[o][k][id]
  <2>1. transactions' = FlagPending(t, c, ids)
    BY DEF Sends
  <2> QED
    BY <2>1, FlagPendingLog
<1>8. /\ n \in Batch
      /\ n.ids = ids
      /\ n.left = ids
      /\ n.undone = ids
      /\ n.owner = t
      /\ n.collection = c
      /\ n.epoch = epoch[t]
      /\ n.callable = (Callables(t, c, ids) # {})
  <2>1. n = [owner |-> t, epoch |-> epoch[t], collection |-> c,
             callable |-> Callables(t, c, ids) # {}, ids |-> ids, left |-> ids, undone |-> ids]
    BY DEF Sends
  <2> QED
    BY <2>1, <1>1, <1>4 DEF Batch
<1>9. ids # {} /\ queue' = IF Connected THEN Append(queue, n) ELSE queue
  BY DEF Sends
<1>10. Frontier'
  <2> SUFFICES ASSUME NEW o \in Owner, NEW k \in Collection
               PROVE  /\ first_id'[o][k] <= current_id[o][k]
                      /\ \A id \in first_id'[o][k] .. current_id[o][k] - 1 :
                            /\ ~transactions'[o][k][id].pending
                            /\ ~transactions'[o][k][id].done
    BY <1>3 DEF Frontier
  <2>1. first_id[o][k] \in Nat /\ current_id[o][k] \in Nat
    BY DEF TypeOK
  <2>2. /\ first_id[o][k] <= current_id[o][k]
        /\ \A id \in first_id[o][k] .. current_id[o][k] - 1 :
              ~transactions[o][k][id].pending /\ ~transactions[o][k][id].done
    BY DEF SubmitInv, Frontier
  <2>3. CASE o # t \/ k # c
    BY <2>1, <2>2, <2>3, <1>6, <1>7
  <2>4. CASE o = t /\ k = c
    BY <2>1, <2>2, <2>4, <1>4, <1>6, <1>7
  <2> QED
    BY <2>3, <2>4
<1>11. ASSUME NEW b \in InFlight
       PROVE  BatchInv(b)' /\ (SameLog(b, n) => b.ids \cap ids = {})
  <2>1. b \in Batch /\ BatchInv(b)
    BY InFlightType DEF SubmitInv
  <2>2. b.owner \in Owner /\ b.collection \in Collection /\ b.ids \subseteq Nat
    BY <2>1 DEF Batch
  <2>3. /\ first_id[b.owner][b.collection] \in Nat
        /\ current_id[b.owner][b.collection] \in Nat
        /\ first_id[b.owner][b.collection] <= current_id[b.owner][b.collection]
    BY <2>2 DEF TypeOK, SubmitInv, Frontier
  <2>4. SameLog(b, n) => b.ids \cap ids = {}
    <3> SUFFICES ASSUME SameLog(b, n), NEW id \in b.ids, id \in ids PROVE FALSE
      OBVIOUS
    <3>1. Alive(b) /\ b.owner = t /\ b.collection = c
      BY <1>8 DEF SameLog, Alive
    <3>2. id < first_id[t][c]
      BY <2>1, <3>1 DEF BatchInv
    <3> QED
      BY <3>2, <1>1, <1>4
  <2>5. ASSUME Alive(b), NEW id \in b.ids
        PROVE  transactions'[b.owner][b.collection][id] =
                 transactions[b.owner][b.collection][id]
    <3>1. /\ id \in 0 .. current_id[b.owner][b.collection] - 1
          /\ id < first_id[b.owner][b.collection]
      BY <2>1, <2>2, <2>3, <2>5 DEF BatchInv
    <3>2. b.owner = t /\ b.collection = c => id \notin ids
      BY <3>1, <1>1, <1>4
    <3> QED
      BY <3>1, <3>2, <2>2, <1>7
  <2>6. first_id[b.owner][b.collection] <= first_id'[b.owner][b.collection]
    BY <2>2, <2>3, <1>4, <1>6
  <2> QED
    BY <2>1, <2>4, <2>5, <2>6, <1>3, BatchKeeps
<1>12. BatchInv(n)'
  <2>1. \A id \in ids : transactions[t][c][id].kind =
                          IF n.callable THEN "callable" ELSE "write"
    <3>1. \A id \in ids : transactions[t][c][id].kind \in {"write", "callable"}
      <4> SUFFICES ASSUME NEW id \in ids
                   PROVE  transactions[t][c][id].kind \in {"write", "callable"}
        OBVIOUS
      <4>1. id \in 0 .. current_id[t][c] - 1
        BY <1>1, <1>4
      <4>2. transactions[t][c][id] \in Entry
        BY <4>1, <1>1
      <4> QED
        BY <4>2, <1>5 DEF Entry, Kinds
    <3>2. n.callable <=> \E id \in ids : transactions[t][c][id].kind = "callable"
      BY <1>8 DEF Callables
    <3> QED
      BY <3>1, <3>2, <1>5
  <2>2. ASSUME NEW id \in ids
        PROVE  /\ id < first_id'[t][c]
               /\ transactions'[t][c][id].kind = transactions[t][c][id].kind
               /\ transactions'[t][c][id].pending
               /\ ~transactions'[t][c][id].done
    <3>1. id \in 0 .. current_id[t][c] - 1 /\ id < end
      BY <1>1, <1>4
    <3> QED
      BY <3>1, <1>1, <1>5, <1>6, <1>7
  <2> QED
    BY <2>1, <2>2, <1>1, <1>3, <1>8, <1>9 DEF BatchInv
<1>13. CASE Connected
  <2>1. queue' = Append(queue, n) /\ queue \in Seq(Batch)
    BY <1>9, <1>13 DEF TypeOK
  <2>2. /\ Len(queue') = Len(queue) + 1
        /\ Len(queue) \in Nat
        /\ \A k \in 1 .. Len(queue) : queue'[k] = queue[k]
        /\ queue'[Len(queue) + 1] = n
    BY <2>1, <1>8
  <2>3. InFlight' = InFlight \cup {n}
    BY <2>2, <1>3 DEF InFlight
  <2>4. n \notin InFlight
    BY <1>8, <1>9, <1>11 DEF SameLog
  <2>5. Apart'
    BY <2>3, <1>8, <1>11 DEF Apart, SubmitInv, SameLog
  <2>6. QueueInv'
    <3>1. \A k \in 1 .. Len(queue) : queue[k] # n
      BY <2>4 DEF InFlight
    <3>2. n \notin running
      BY <2>4 DEF InFlight
    <3> QED
      BY <2>2, <3>1, <3>2, <1>3 DEF QueueInv, SubmitInv
  <2> QED
    BY <2>3, <2>5, <2>6, <1>10, <1>11, <1>12 DEF SubmitInv
<1>14. CASE ~Connected
  <2>1. queue' = queue /\ InFlight' = InFlight
    BY <1>3, <1>9, <1>14 DEF InFlight
  <2> QED
    BY <2>1, <1>3, <1>10, <1>11 DEF SubmitInv, Apart, QueueInv, SameLog
<1> QED
  BY <1>13, <1>14

\* A step of a batch b, as the proofs read it: b goes on as s, or has ended, and
\* the entries ids of its log are flagged as done.
Executes(b, s, ids, ended) ==
    /\ b \in running
    /\ s \in Batch
    /\ SameLog(s, b)
    /\ s.callable = b.callable
    /\ s.ids \subseteq b.ids
    /\ s.left \subseteq b.left
    /\ s.left \subseteq s.undone
    /\ s.undone \subseteq s.ids
    /\ s.undone = b.undone \ ids
    /\ ids \subseteq b.undone
    /\ ids # {} => Alive(b)
    /\ IF ended THEN s.undone = {} ELSE s.ids # {}
    /\ Stores(b, ids)
    /\ running' = (running \ {b}) \cup (IF ended THEN {} ELSE {s})
    /\ UNCHANGED <<epoch, first_id, current_id, queue, pending_callables>>

\* The four steps of a batch are such steps.
LEMMA ExecuteExecutes ==
    ASSUME TypeOK, SubmitInv, NEW b \in running, Execute(b)
    PROVE  \E s, ids, ended : Executes(b, s, ids, ended)
<1> USE DEF logVars, timeVars, lifeVars, poolVars
<1>1. b \in Batch /\ b \in InFlight /\ BatchInv(b)
  BY DEF TypeOK, InFlight, SubmitInv
<1>2. ASSUME BulkApply(b) \/ RunCallable(b)
      PROVE  \E s, ids, ended : Executes(b, s, ids, ended)
  <2>1. PICK id \in b.left :
          running' = (running \ {b}) \cup {[b EXCEPT !.left = @ \ {id}]}
    BY <1>2 DEF BulkApply, RunCallable
  <2>2. PICK s : s = [b EXCEPT !.left = @ \ {id}]
    OBVIOUS
  <2>3. /\ s \in Batch /\ s.owner = b.owner /\ s.collection = b.collection
        /\ s.epoch = b.epoch /\ s.callable = b.callable /\ s.ids = b.ids
        /\ s.left = b.left \ {id} /\ s.undone = b.undone
    BY <1>1, <2>2 DEF Batch
  <2>4. UNCHANGED <<epoch, first_id, current_id, transactions, queue, pending_callables>>
    BY <1>2 DEF BulkApply, RunCallable
  <2>5. Stores(b, {})
    BY <2>4 DEF Stores
  <2>6. Executes(b, s, {}, FALSE)
    BY <1>1, <2>1, <2>2, <2>3, <2>4, <2>5 DEF Executes, BatchInv, SameLog
  <2> QED
    BY <2>6
<1>3. ASSUME FlagDone(b)
      PROVE  \E s, ids, ended : Executes(b, s, ids, ended)
  <2>1. PICK id \in b.undone :
          /\ Returned(b, id)
          /\ transactions' =
                [transactions EXCEPT ![b.owner][b.collection][id].done = TRUE]
          /\ running' = (running \ {b}) \cup
                {[b EXCEPT !.undone = @ \ {id},
                           !.left = IF b.callable THEN @ ELSE {}]}
    BY <1>3 DEF FlagDone
  <2>2. PICK s : s = [b EXCEPT !.undone = @ \ {id},
                               !.left = IF b.callable THEN @ ELSE {}]
    OBVIOUS
  <2>3. /\ s \in Batch /\ s.owner = b.owner /\ s.collection = b.collection
        /\ s.epoch = b.epoch /\ s.callable = b.callable /\ s.ids = b.ids
        /\ s.left = (IF b.callable THEN b.left ELSE {}) /\ s.undone = b.undone \ {id}
    BY <1>1, <2>2 DEF Batch
  <2>4. /\ Alive(b)
        /\ UNCHANGED <<epoch, first_id, current_id, queue, pending_callables>>
    BY <1>3 DEF FlagDone
  <2>5. s.left \subseteq b.left /\ s.left \subseteq s.undone
    BY <1>1, <2>1, <2>3 DEF BatchInv, Returned
  <2>6. Stores(b, {id})
    <3>1. PICK t, c : t = b.owner /\ c = b.collection /\ t \in Owner /\ c \in Collection
      BY <1>1 DEF Batch
    <3>2. first_id[t][c] \in Nat /\ current_id[t][c] \in Nat /\ first_id[t][c] <= current_id[t][c]
      BY <3>1 DEF TypeOK, SubmitInv, Frontier
    <3>3. id \in Nat /\ id < first_id[t][c]
      BY <1>1, <2>4, <3>1 DEF BatchInv, Batch
    <3>4. id \in 0 .. current_id[b.owner][b.collection] - 1
      BY <3>1, <3>2, <3>3
    <3> QED
      BY <1>1, <2>1, <3>4, DoneLog
  <2>7. Executes(b, s, {id}, FALSE)
    BY <1>1, <2>1, <2>2, <2>3, <2>4, <2>5, <2>6 DEF Executes, BatchInv, SameLog
  <2> QED
    BY <2>7
<1>4. ASSUME ClearPending(b)
      PROVE  \E s, ids, ended : Executes(b, s, ids, ended)
  <2>1. PICK id \in b.ids \ b.undone :
          /\ \/ UNCHANGED transactions
             \/ \E t \in Owner, c \in Collection : \E i \in DOMAIN transactions[t][c] :
                  transactions' = [transactions EXCEPT ![t][c][i].pending = FALSE]
          /\ running' = (running \ {b}) \cup
                (IF b.ids = {id} THEN {} ELSE {[b EXCEPT !.ids = @ \ {id}]})
    BY <1>4 DEF ClearPending
  <2>2. PICK s, ended : s = [b EXCEPT !.ids = @ \ {id}] /\ ended = (b.ids = {id})
    OBVIOUS
  <2>3. /\ s \in Batch /\ s.owner = b.owner /\ s.collection = b.collection
        /\ s.epoch = b.epoch /\ s.callable = b.callable /\ s.ids = b.ids \ {id}
        /\ s.left = b.left /\ s.undone = b.undone
    BY <1>1, <2>2 DEF Batch
  <2>4. UNCHANGED <<epoch, first_id, current_id, queue, pending_callables>>
    BY <1>4 DEF ClearPending
  <2>5. Stores(b, {})
    <3>1. CASE UNCHANGED transactions
      BY <3>1 DEF Stores
    <3>2. CASE ~UNCHANGED transactions
      BY <3>2, <2>1, PendingLog
    <3> QED
      BY <3>1, <3>2
  <2>6. running' = (running \ {b}) \cup (IF ended THEN {} ELSE {s})
    BY <2>1, <2>2
  <2>7. s.undone \subseteq s.ids /\ (IF ended THEN s.undone = {} ELSE s.ids # {})
    BY <1>1, <2>1, <2>2, <2>3 DEF BatchInv
  <2>8. Executes(b, s, {}, ended)
    BY <1>1, <2>3, <2>4, <2>5, <2>6, <2>7 DEF Executes, BatchInv, SameLog
  <2> QED
    BY <2>8
<1> QED
  BY <1>2, <1>3, <1>4 DEF Execute

\* A batch goes on: it flags entries of its own, and drops out of what is left.
LEMMA ExecuteSubmit ==
    ASSUME TypeOK, TypeOK', SubmitInv, NEW b, NEW s, NEW ids, NEW ended,
           Executes(b, s, ids, ended)
    PROVE  /\ SubmitInv'
           /\ InFlight' = (InFlight \ {b}) \cup (IF ended THEN {} ELSE {s})
<1> DEFINE X == IF ended THEN {} ELSE {s}
<1>0. UNCHANGED <<epoch, first_id, current_id, queue>> /\ b \in running
  BY DEF Executes
<1>1. b \in Batch /\ b \in InFlight /\ BatchInv(b)
  BY <1>0 DEF TypeOK, InFlight, SubmitInv
<1>2. b.owner \in Owner /\ b.collection \in Collection /\ b.ids \subseteq Nat
  BY <1>1 DEF Batch
<1>3. /\ s \in Batch
      /\ s.owner = b.owner /\ s.collection = b.collection /\ s.epoch = b.epoch
      /\ s.callable = b.callable
      /\ s.ids \subseteq b.ids /\ s.left \subseteq s.undone /\ s.undone \subseteq s.ids
      /\ s.undone = b.undone \ ids /\ ids \subseteq b.undone /\ ids \subseteq b.ids
      /\ ids # {} => Alive(b)
      /\ ~ended => s.ids # {}
  BY <1>1 DEF Executes, SameLog, BatchInv
<1>4. \A o \in Owner, k \in Collection : \A id \in 0 .. current_id[o][k] - 1 :
        /\ transactions'[o][k][id].kind = transactions[o][k][id].kind
        /\ transactions'[o][k][id].pending => transactions[o][k][id].pending
        /\ o # b.owner \/ k # b.collection \/ id \notin ids =>
             transactions'[o][k][id].done = transactions[o][k][id].done
  BY DEF Executes, Stores
<1>5. \A k \in 1 .. Len(queue) : queue[k] # b
  BY <1>0 DEF SubmitInv, QueueInv
<1>6. InFlight' = (InFlight \ {b}) \cup X
  <2>1. running' = (running \ {b}) \cup X
    BY DEF Executes
  <2> QED
    BY <1>0, <1>5, <2>1 DEF InFlight
<1>7. \A a \in InFlight \ {b} : SameLog(a, b) => a.ids \cap b.ids = {}
  BY <1>1 DEF SubmitInv, Apart
<1>8. Alive(b) => \A id \in b.ids :
        /\ id \in 0 .. current_id[b.owner][b.collection] - 1
        /\ id < first_id[b.owner][b.collection]
  <2>1. /\ first_id[b.owner][b.collection] \in Nat
        /\ current_id[b.owner][b.collection] \in Nat
        /\ first_id[b.owner][b.collection] <= current_id[b.owner][b.collection]
    BY <1>2 DEF TypeOK, SubmitInv, Frontier
  <2> QED
    BY <2>1, <1>1, <1>2 DEF BatchInv
<1>9. Frontier'
  <2> SUFFICES ASSUME NEW o \in Owner, NEW k \in Collection
               PROVE  /\ first_id[o][k] <= current_id[o][k]
                      /\ \A id \in first_id[o][k] .. current_id[o][k] - 1 :
                            /\ ~transactions'[o][k][id].pending
                            /\ ~transactions'[o][k][id].done
    BY <1>0 DEF Frontier
  <2>1. first_id[o][k] \in Nat /\ current_id[o][k] \in Nat
    BY DEF TypeOK
  <2>2. /\ first_id[o][k] <= current_id[o][k]
        /\ \A id \in first_id[o][k] .. current_id[o][k] - 1 :
              ~transactions[o][k][id].pending /\ ~transactions[o][k][id].done
    BY DEF SubmitInv, Frontier
  <2>3. ASSUME NEW id \in first_id[o][k] .. current_id[o][k] - 1
        PROVE  /\ ~transactions'[o][k][id].pending
               /\ ~transactions'[o][k][id].done
    <3>1. id \in 0 .. current_id[o][k] - 1
      BY <2>1, <2>3
    <3>2. o = b.owner /\ k = b.collection => id \notin ids
      BY <2>1, <2>3, <1>3, <1>8
    <3>3. ~transactions[o][k][id].pending /\ ~transactions[o][k][id].done
      BY <2>2
    <3> QED
      BY <3>1, <3>2, <3>3, <1>4
  <2> QED
    BY <2>2, <2>3
<1>10. ASSUME NEW a \in InFlight \ {b} PROVE BatchInv(a)'
  <2>1. a \in Batch /\ BatchInv(a)
    BY InFlightType DEF SubmitInv
  <2>2. a.owner \in Owner /\ a.collection \in Collection /\ a.ids \subseteq Nat
    BY <2>1 DEF Batch
  <2>3. /\ first_id[a.owner][a.collection] \in Nat
        /\ current_id[a.owner][a.collection] \in Nat
        /\ first_id[a.owner][a.collection] <= current_id[a.owner][a.collection]
    BY <2>2 DEF TypeOK, SubmitInv, Frontier
  <2>4. ASSUME Alive(a), NEW id \in a.ids
        PROVE  /\ transactions'[a.owner][a.collection][id].kind =
                    transactions[a.owner][a.collection][id].kind
               /\ transactions'[a.owner][a.collection][id].done =
                    transactions[a.owner][a.collection][id].done
    <3>1. id \in 0 .. current_id[a.owner][a.collection] - 1
      BY <2>1, <2>2, <2>3, <2>4 DEF BatchInv
    <3>2. a.owner = b.owner /\ a.collection = b.collection => id \notin ids
      BY <2>4, <1>3, <1>7 DEF SameLog, Alive
    <3> QED
      BY <3>1, <3>2, <2>2, <1>4
  <2> QED
    BY <2>1, <2>3, <2>4, <1>0, BatchKeeps
<1>11. ASSUME ~ended PROVE BatchInv(s)'
  <2>1. ASSUME Alive(b), NEW id \in s.ids
        PROVE  /\ id < first_id[b.owner][b.collection]
               /\ transactions'[b.owner][b.collection][id].kind =
                     IF b.callable THEN "callable" ELSE "write"
               /\ id \in s.undone =>
                     ~transactions'[b.owner][b.collection][id].done
    <3>1. /\ id \in b.ids
          /\ id < first_id[b.owner][b.collection]
          /\ transactions[b.owner][b.collection][id].kind =
                IF b.callable THEN "callable" ELSE "write"
          /\ id \in b.undone =>
                ~transactions[b.owner][b.collection][id].done
      BY <1>1, <1>3, <2>1 DEF BatchInv
    <3>2. id \in s.undone => id \notin ids /\ id \in b.undone
      BY <1>3
    <3>3. id \in 0 .. current_id[b.owner][b.collection] - 1
      BY <1>8, <2>1, <3>1
    <3> QED
      BY <3>1, <3>2, <3>3, <1>2, <1>4
  <2>2. Alive(s)' <=> Alive(b)
    BY <1>0, <1>3 DEF Alive
  <2>3. s.epoch <= epoch'[s.owner] /\ s.ids # {}
    BY <1>0, <1>1, <1>3, <1>11 DEF BatchInv
  <2> QED
    BY <2>1, <2>2, <2>3, <1>0, <1>3 DEF BatchInv
<1>12. Apart'
  <2>1. \A a \in InFlight : SameLog(a, s) <=> SameLog(a, b)
    BY <1>3 DEF SameLog
  <2>2. \A a \in InFlight : SameLog(s, a) <=> SameLog(b, a)
    BY <1>3 DEF SameLog
  <2>3. \A a \in InFlight : SameLog(a, b) <=> SameLog(b, a)
    BY DEF SameLog
  <2>4. \A a \in InFlight \ {b} : SameLog(a, s) => a.ids \cap s.ids = {}
    BY <2>1, <1>3, <1>7
  <2>5. \A a, c \in InFlight \ {b} : a # c /\ SameLog(a, c) => a.ids \cap c.ids = {}
    BY DEF SubmitInv, Apart
  <2>6. \A a, c : SameLog(a, c)' <=> SameLog(a, c)
    BY DEF SameLog
  <2> HIDE DEF InFlight, SameLog
  <2> QED
    BY <2>1, <2>2, <2>3, <2>4, <2>5, <2>6, <1>6 DEF Apart
<1>13. QueueInv'
  <2>1. ASSUME ~ended, NEW k \in 1 .. Len(queue) PROVE queue[k] # s
    <3>1. queue[k] \in InFlight \ {b}
      BY <1>5 DEF InFlight
    <3>2. s.ids \cap b.ids # {} /\ SameLog(s, b)
      BY <1>1, <1>3, <2>1 DEF BatchInv, SameLog
    <3> QED
      BY <3>1, <3>2, <1>7
  <2>2. running' = (running \ {b}) \cup X
    BY DEF Executes
  <2> QED
    BY <1>0, <2>1, <2>2 DEF QueueInv, SubmitInv
<1> QED
  BY <1>6, <1>9, <1>10, <1>11, <1>12, <1>13 DEF SubmitInv

\* Going past entries that need no batch moves first_id only.
LEMMA PassSubmit ==
    ASSUME TypeOK, TypeOK', SubmitInv, NEW t \in Owner, NEW c \in Collection,
           NEW end \in first_id[t][c] .. current_id[t][c],
           first_id' = [first_id EXCEPT ![t][c] = end],
           UNCHANGED <<epoch, current_id, transactions, queue, running>>
    PROVE  SubmitInv'
<1>1. first_id[t][c] \in Nat /\ current_id[t][c] \in Nat
  BY LogType
<1>2. /\ first_id'[t][c] = end
      /\ \A o \in Owner, k \in Collection : o # t \/ k # c =>
            first_id'[o][k] = first_id[o][k]
  BY DEF TypeOK
<1>3. end \in Nat /\ first_id[t][c] <= end /\ end <= current_id[t][c]
  BY <1>1
<1>4. Frontier'
  <2> SUFFICES ASSUME NEW o \in Owner, NEW k \in Collection
               PROVE  /\ first_id'[o][k] <= current_id[o][k]
                      /\ \A id \in first_id'[o][k] .. current_id[o][k] - 1 :
                            /\ ~transactions[o][k][id].pending
                            /\ ~transactions[o][k][id].done
    BY DEF Frontier
  <2>1. /\ first_id[o][k] <= current_id[o][k]
        /\ \A id \in first_id[o][k] .. current_id[o][k] - 1 :
              ~transactions[o][k][id].pending /\ ~transactions[o][k][id].done
    BY DEF SubmitInv, Frontier
  <2>2. CASE o # t \/ k # c
    BY <2>1, <2>2, <1>2
  <2>3. CASE o = t /\ k = c
    BY <2>1, <2>3, <1>1, <1>2, <1>3
  <2> QED
    BY <2>2, <2>3
<1>5. InFlight' = InFlight
  BY DEF InFlight
<1>6. ASSUME NEW b \in InFlight PROVE BatchInv(b)'
  <2>1. b \in Batch /\ BatchInv(b)
    BY InFlightType DEF SubmitInv
  <2>2. b.owner \in Owner /\ b.collection \in Collection
    BY <2>1 DEF Batch
  <2>3. first_id[b.owner][b.collection] \in Nat
    BY <2>2, LogType
  <2>4. first_id[b.owner][b.collection] <= first_id'[b.owner][b.collection]
    BY <2>2, <2>3, <1>2, <1>3
  <2> QED
    BY <2>1, <2>4, BatchKeeps
<1> QED
  BY <1>4, <1>5, <1>6 DEF SubmitInv, Apart, QueueInv

\* The batches of the previous user of an object never come alive again.
LEMMA ReinitSubmit ==
    ASSUME TypeOK, SubmitInv, NEW t \in Owner, Reinit(t)
    PROVE  SubmitInv'
<1>1. UNCHANGED <<queue, running>>
  BY DEF Reinit, poolVars
<1>2. InFlight' = InFlight
  BY <1>1 DEF InFlight
<1>3. Frontier'
  BY DEF Frontier, SubmitInv, Reinit, TypeOK
<1>4. ASSUME NEW b \in InFlight PROVE BatchInv(b)'
  <2>1. b \in Batch /\ BatchInv(b)
    BY InFlightType DEF SubmitInv
  <2>2. b.owner \in Owner /\ b.collection \in Collection /\ b.epoch \in Nat
    BY <2>1 DEF Batch
  <2>3. CASE b.owner = t
    <3>1. epoch'[t] = epoch[t] + 1 /\ epoch[t] \in Nat
      BY DEF Reinit, TypeOK
    <3>2. b.epoch <= epoch[t]
      BY <2>1, <2>3 DEF BatchInv
    <3>3. b.epoch <= epoch'[b.owner] /\ b.epoch # epoch'[b.owner]
      BY <2>2, <2>3, <3>1, <3>2
    <3> QED
      BY <2>1, <3>3 DEF BatchInv, Alive
  <2>4. CASE b.owner # t
    <3>1. /\ epoch'[b.owner] = epoch[b.owner]
          /\ first_id'[b.owner] = first_id[b.owner]
          /\ transactions'[b.owner] = transactions[b.owner]
      BY <2>2, <2>4 DEF Reinit, TypeOK
    <3> QED
      BY <2>1, <3>1 DEF BatchInv, Alive
  <2> QED
    BY <2>3, <2>4
<1> QED
  BY <1>1, <1>2, <1>3, <1>4 DEF SubmitInv, Apart, SameLog, QueueInv

\* A batch that starts is the same batch in another place.
LEMMA StartSubmit ==
    ASSUME TypeOK, SubmitInv, StartBatch
    PROVE  SubmitInv' /\ InFlight' = InFlight
<1>1. UNCHANGED <<epoch, first_id, current_id, transactions>>
  BY DEF StartBatch, logVars
<1>2. /\ queue \in Seq(Batch) /\ queue # <<>>
      /\ queue' = Tail(queue) /\ running' = running \cup {Head(queue)}
  BY DEF StartBatch, TypeOK
<1>3. /\ Len(queue) \in Nat /\ Len(queue) >= 1
      /\ Len(queue') = Len(queue) - 1
      /\ \A k \in 1 .. Len(queue) - 1 : queue'[k] = queue[k + 1]
      /\ Head(queue) = queue[1]
  BY <1>2
<1>4. InFlight' = InFlight
  <2>1. \A k \in 1 .. Len(queue) :
          k # 1 => k - 1 \in 1 .. Len(queue) - 1 /\ k = (k - 1) + 1
    BY <1>3
  <2>2. \A k \in 1 .. Len(queue) - 1 : k + 1 \in 1 .. Len(queue)
    BY <1>3
  <2>3. 1 \in 1 .. Len(queue)
    BY <1>3
  <2>4. {queue[k] : k \in 1 .. Len(queue)} =
          {queue[1]} \cup {queue[k + 1] : k \in 1 .. Len(queue) - 1}
    BY <2>1, <2>2, <2>3
  <2>5. {queue'[k] : k \in 1 .. Len(queue')} =
          {queue[k + 1] : k \in 1 .. Len(queue) - 1}
    BY <1>3
  <2> QED
    BY <1>2, <1>3, <2>4, <2>5 DEF InFlight
<1>5. QueueInv'
  <2>1. \A k \in 1 .. Len(queue') : k + 1 \in 1 .. Len(queue) /\ k + 1 # 1
    BY <1>3
  <2>2. 1 \in 1 .. Len(queue)
    BY <1>3
  <2>3. \A j, k \in 1 .. Len(queue') : queue'[j] = queue'[k] => j = k
    <3> SUFFICES ASSUME NEW j \in 1 .. Len(queue'), NEW k \in 1 .. Len(queue'),
                        queue'[j] = queue'[k]
                 PROVE  j = k
      OBVIOUS
    <3>1. queue[j + 1] = queue[k + 1]
      BY <1>3
    <3>2. j + 1 = k + 1
      BY <2>1, <3>1 DEF SubmitInv, QueueInv
    <3> QED
      BY <3>2
  <2>4. \A k \in 1 .. Len(queue') : queue'[k] \notin running'
    <3> SUFFICES ASSUME NEW k \in 1 .. Len(queue') PROVE queue'[k] \notin running'
      OBVIOUS
    <3>1. queue'[k] = queue[k + 1]
      BY <1>3
    <3>2. queue[k + 1] \notin running /\ queue[k + 1] # queue[1]
      BY <2>1, <2>2 DEF SubmitInv, QueueInv
    <3> QED
      BY <1>2, <1>3, <3>1, <3>2
  <2> QED
    BY <2>3, <2>4 DEF QueueInv
<1>6. Frontier' /\ \A b \in InFlight : BatchInv(b)'
  BY <1>1 DEF SubmitInv, Frontier, BatchInv, Alive
<1> QED
  BY <1>4, <1>5, <1>6 DEF SubmitInv, Apart

\* NothingPending, SendBatch and the steps of the pool as the lemmas read them.
LEMMA SendBatchSends ==
    ASSUME TypeOK, NEW t \in Owner, SendBatch(t)
    PROVE  \E c \in Collection : \E end, ids, n : Sends(t, c, end, ids, n)
<1>1. Collections[cursor[t]] \in Collection
  BY CursorCollection DEF SendBatch
<1> QED
  BY <1>1 DEF SendBatch, Sends

\* Every step keeps the account of what was sent.
LEMMA NextSubmit == TypeOK /\ TypeOK' /\ SubmitInv /\ [Next]_vars => SubmitInv'
<1> SUFFICES ASSUME TypeOK /\ TypeOK' /\ SubmitInv, [Next]_vars PROVE SubmitInv'
  OBVIOUS
<1> USE DEF logVars, timeVars, lifeVars, poolVars
<1>0. ASSUME UNCHANGED <<epoch, first_id, current_id, transactions, queue, running>>
      PROVE  SubmitInv'
  BY <1>0 DEF SubmitInv, Frontier, BatchInv, Apart, QueueInv, InFlight, Alive, SameLog
<1>1. ASSUME NEW t \in Owner, NEW c \in Collection, PushOperation(t, c)
      PROVE  SubmitInv'
  <2>1. Push(t, c, NewEntry("write", <<>>)) /\ "write" \in Kinds
    BY <1>1 DEF PushOperation, Kinds
  <2>2. NewEntry("write", <<>>) \in Entry
    BY NewEntryType
  <2> QED
    BY <2>1, <2>2, PushSubmit
<1>2. ASSUME NEW t \in Owner, NEW c \in Collection, PushCallable(t, c)
      PROVE  SubmitInv'
  <2>1. Push(t, c, NewEntry("callable", <<>>)) /\ "callable" \in Kinds
    BY <1>2 DEF PushCallable, Kinds
  <2>2. NewEntry("callable", <<>>) \in Entry
    BY NewEntryType
  <2> QED
    BY <2>1, <2>2, PushSubmit
<1>3. ASSUME NEW t \in Owner, NEW c \in Collection, NEW o \in Owner,
             NEW id \in 0 .. MaxSlots - 1, PushDependency(t, c, o, id)
      PROVE  SubmitInv'
  <2> DEFINE on == [owner |-> o, epoch |-> epoch[o], collection |-> c, id |-> id]
  <2>0. on \in Operation
    BY ConstantsAssumption DEF Operation, TypeOK
  <2>1. Push(t, c, NewEntry("dependency", on)) /\ "dependency" \in Kinds
    BY <1>3 DEF PushDependency, Kinds
  <2>2. NewEntry("dependency", on) \in Entry
    BY NewEntryType, <2>0
  <2> QED
    BY <2>1, <2>2, PushSubmit
<1>4. ASSUME NEW t \in Owner, FlagDeletion(t)
      PROVE  SubmitInv'
  BY <1>0, <1>4 DEF FlagDeletion
<1>5. ASSUME NEW t \in Owner, UnflagDeletion(t)
      PROVE  SubmitInv'
  BY <1>0, <1>5 DEF UnflagDeletion
<1>6. ASSUME NEW t \in Owner, Remove(t)
      PROVE  SubmitInv'
  BY <1>0, <1>6 DEF Remove
<1>7. ASSUME NEW t \in Owner, Reinit(t)
      PROVE  SubmitInv'
  BY <1>7, ReinitSubmit
<1>8. ASSUME NEW t \in Owner, UpdateSchedules(t)
      PROVE  SubmitInv'
  BY <1>0, <1>8 DEF UpdateSchedules
<1>9. ASSUME NEW t \in Owner, NEW d \in Diffs, UpdateIdle(t, d)
      PROVE  SubmitInv'
  BY <1>0, <1>9 DEF UpdateIdle
<1>10. ASSUME NEW t \in Owner, NEW d \in Diffs, UpdateStart(t, d)
      PROVE  SubmitInv'
  BY <1>0, <1>10 DEF UpdateStart
<1>11. ASSUME NEW t \in Owner, SkipCollection(t)
      PROVE  SubmitInv'
  BY <1>0, <1>11 DEF SkipCollection
<1>12. ASSUME NEW t \in Owner, NothingPending(t)
      PROVE  SubmitInv'
  <2>1. PICK c \in Collection : \E end \in first_id[t][c] .. current_id[t][c] :
          first_id' = [first_id EXCEPT ![t][c] = end]
    BY <1>12, CursorCollection DEF NothingPending
  <2>2. UNCHANGED <<epoch, current_id, transactions, queue, running>>
    BY <1>12 DEF NothingPending
  <2> QED
    BY <2>1, <2>2, PassSubmit
<1>13. ASSUME NEW t \in Owner, SendBatch(t)
      PROVE  SubmitInv'
  <2>1. PICK c \in Collection : \E end, ids, n : Sends(t, c, end, ids, n)
    BY <1>13, SendBatchSends
  <2> QED
    BY <2>1, SendSubmit
<1>14. CASE StartBatch
  BY <1>14, StartSubmit
<1>15. ASSUME NEW b \in running, Execute(b)
      PROVE  SubmitInv'
  <2>1. PICK s, ids, ended : Executes(b, s, ids, ended)
    BY <1>15, ExecuteExecutes
  <2> QED
    BY <2>1, ExecuteSubmit
<1>16. ASSUME NEW t \in Owner, CheckCollection(t)
      PROVE  SubmitInv'
  BY <1>0, <1>16 DEF CheckCollection
<1>17. CASE UNCHANGED vars
  BY <1>0, <1>17 DEF vars
<1> QED
  BY <1>1, <1>2, <1>3, <1>4, <1>5, <1>6, <1>7, <1>8, <1>9, <1>10,
     <1>11, <1>12, <1>13, <1>14, <1>15, <1>16, <1>17
     DEF Next, User, UpdateHead, UpdateBody

\* What was sent stays accounted for.
LEMMA SubmitInvariant == Spec => []SubmitInv
<1> QED
  BY InitType, NextType, InitSubmit, NextSubmit, PTL DEF Spec

\* No entry from first_id on was sent: the branches of get_pending_operations
\* for entries that are pending or done already are never taken.
THEOREM FrontierAlwaysHolds == Spec => []Frontier
<1>1. SubmitInv => Frontier
  BY DEF SubmitInv
<1> QED
  BY <1>1, SubmitInvariant, PTL

\* No operation is ever sent twice, for any number of database threads, owners
\* and collections, and also when bulks fail and objects are used again.
THEOREM AlwaysSubmittedOnce == Spec => []SubmittedOnce
<1>1. SubmitInv => SubmittedOnce
  BY DEF SubmitInv, BatchInv, Apart, QueueInv, SubmittedOnce
<1> QED
  BY <1>1, SubmitInvariant, PTL

----------------------------------------------------------------------------
(***************************************************************************)
(* No operation is forgotten: NoneForgotten is inductive beside the type   *)
(* invariant and the account of what was sent (SubmitInv). So is the count *)
(* of the callables that wait, with a bound on the logs.                   *)
(***************************************************************************)

\* An entry stays accounted for when neither it nor its batches change, except
\* that it may become done.
LEMMA AccountedKeeps ==
    ASSUME NEW t \in Owner, NEW c \in Collection, NEW id, Accounted(t, c, id),
           epoch'[t] = epoch[t],
           transactions'[t][c][id].kind = transactions[t][c][id].kind,
           transactions[t][c][id].done => transactions'[t][c][id].done,
           InFlight \subseteq InFlight'
    PROVE  Accounted(t, c, id)'
BY DEF Accounted, SameLog, Current

\* The ids of a log below first_id are its entries.
LEMMA SentAreEntries ==
    ASSUME TypeOK, SubmitInv, NEW t \in Owner, NEW c \in Collection,
           NEW id \in 0 .. first_id[t][c] - 1
    PROVE  id \in 0 .. current_id[t][c] - 1
<1>1. first_id[t][c] \in Nat /\ current_id[t][c] \in Nat
  BY LogType
<1>2. first_id[t][c] <= current_id[t][c]
  BY DEF SubmitInv, Frontier
<1> QED
  BY <1>1, <1>2

\* A push leaves what was sent alone.
LEMMA PushForgets ==
    ASSUME TypeOK, SubmitInv, NoneForgotten, NEW t \in Owner, NEW c \in Collection,
           NEW e \in Entry, Push(t, c, e)
    PROVE  NoneForgotten'
<1> SUFFICES ASSUME Connected, NEW o \in Owner, NEW k \in Collection,
                    NEW id \in 0 .. first_id'[o][k] - 1
             PROVE  Accounted(o, k, id)'
  BY DEF NoneForgotten
<1>1. UNCHANGED <<epoch, first_id, queue, running>>
  BY DEF Push, poolVars
<1>2. InFlight' = InFlight
  BY <1>1 DEF InFlight
<1>3. id \in 0 .. first_id[o][k] - 1
  BY <1>1
<1>4. id \in 0 .. current_id[o][k] - 1 /\ Accounted(o, k, id)
  BY <1>3, SentAreEntries DEF NoneForgotten
<1>5. transactions'[o][k][id] = transactions[o][k][id]
  <2>1. CASE o = t /\ k = c
    BY <1>4, <2>1, PushLog
  <2>2. CASE o # t \/ k # c
    BY <2>2, PushLog
  <2> QED
    BY <2>1, <2>2
<1> QED
  BY <1>1, <1>2, <1>4, <1>5, AccountedKeeps

\* The log of an object that is initialised again has nothing that was sent.
LEMMA ReinitForgets ==
    ASSUME TypeOK, NoneForgotten, NEW t \in Owner, Reinit(t)
    PROVE  NoneForgotten'
<1> SUFFICES ASSUME Connected, NEW o \in Owner, NEW k \in Collection,
                    NEW id \in 0 .. first_id'[o][k] - 1
             PROVE  Accounted(o, k, id)'
  BY DEF NoneForgotten
<1>1. InFlight' = InFlight
  BY DEF Reinit, poolVars, InFlight
<1>2. CASE o = t
  <2>1. first_id'[o][k] = 0
    BY <1>2 DEF Reinit, TypeOK
  <2> QED
    BY <2>1
<1>3. CASE o # t
  <2>1. /\ epoch'[o] = epoch[o] /\ first_id'[o] = first_id[o]
        /\ transactions'[o] = transactions[o]
    BY <1>3 DEF Reinit, TypeOK
  <2>2. Accounted(o, k, id)
    BY <2>1 DEF NoneForgotten
  <2> QED
    BY <1>1, <2>1, <2>2, AccountedKeeps
<1> QED
  BY <1>2, <1>3

\* Entries that need no batch are passed.
LEMMA PassForgets ==
    ASSUME TypeOK, NoneForgotten, NEW t \in Owner, NEW c \in Collection,
           NEW end \in first_id[t][c] .. current_id[t][c],
           Taken(t, c, end) = {},
           first_id' = [first_id EXCEPT ![t][c] = end],
           UNCHANGED <<epoch, transactions, queue, running>>
    PROVE  NoneForgotten'
<1> SUFFICES ASSUME Connected, NEW o \in Owner, NEW k \in Collection,
                    NEW id \in 0 .. first_id'[o][k] - 1
             PROVE  Accounted(o, k, id)'
  BY DEF NoneForgotten
<1>1. InFlight' = InFlight
  BY DEF InFlight
<1>2. CASE id \in 0 .. first_id[o][k] - 1
  <2>1. Accounted(o, k, id)
    BY <1>2 DEF NoneForgotten
  <2> QED
    BY <1>1, <2>1, AccountedKeeps
<1>3. CASE id \notin 0 .. first_id[o][k] - 1
  <2>1. o = t /\ k = c
    BY <1>3 DEF TypeOK
  <2>2. first_id'[t][c] = end /\ first_id[t][c] \in Nat
    BY DEF TypeOK
  <2>3. id \in first_id[t][c] .. end - 1
    BY <1>3, <2>1, <2>2
  <2>4. transactions[t][c][id].kind = "dependency" \/ transactions[t][c][id].done
    BY <2>3 DEF Taken
  <2> QED
    BY <2>1, <2>4 DEF Accounted
<1> QED
  BY <1>2, <1>3

\* What a scan passes needs no batch, or is in the one that is sent.
LEMMA SendForgets ==
    ASSUME TypeOK, SubmitInv, NoneForgotten, NEW t \in Owner, NEW c \in Collection,
           NEW end, NEW ids, NEW n, Sends(t, c, end, ids, n)
    PROVE  NoneForgotten'
<1> SUFFICES ASSUME Connected, NEW o \in Owner, NEW k \in Collection,
                    NEW id \in 0 .. first_id'[o][k] - 1
             PROVE  Accounted(o, k, id)'
  BY DEF NoneForgotten
<1>1. /\ end \in first_id[t][c] .. current_id[t][c]
      /\ ids = Taken(t, c, end)
      /\ first_id' = [first_id EXCEPT ![t][c] = end]
      /\ transactions' = FlagPending(t, c, ids)
      /\ queue' = Append(queue, n)
      /\ UNCHANGED <<epoch, running>>
      /\ n = [owner |-> t, epoch |-> epoch[t], collection |-> c,
              callable |-> Callables(t, c, ids) # {}, ids |-> ids, left |-> ids, undone |-> ids]
  BY DEF Sends
<1>2. /\ n.owner = t /\ n.epoch = epoch[t] /\ n.collection = c
      /\ n.ids = ids /\ n.undone = ids
  BY <1>1
<1>3. InFlight \subseteq InFlight' /\ n \in InFlight'
  <2>0. queue \in Seq(Batch) /\ n \in Batch
    <3>1. t \in Owner /\ epoch[t] \in Nat /\ ids \subseteq Nat
      BY <1>1, TakenIds, LogType
    <3> QED
      BY <1>1, <3>1 DEF TypeOK, Batch
  <2>1. Len(queue) \in Nat /\ Len(queue') = Len(queue) + 1
    BY <1>1, <2>0
  <2>2. \A j \in 1 .. Len(queue) : queue'[j] = queue[j] /\ j \in 1 .. Len(queue')
    BY <1>1, <2>0, <2>1
  <2>3. queue'[Len(queue')] = n /\ Len(queue') \in 1 .. Len(queue')
    BY <1>1, <2>0, <2>1
  <2> QED
    BY <1>1, <2>2, <2>3 DEF InFlight
<1>4. /\ first_id[t][c] \in Nat /\ current_id[t][c] \in Nat
      /\ end \in Nat /\ end <= current_id[t][c] /\ first_id[t][c] <= end
  <2>1. first_id[t][c] \in Nat /\ current_id[t][c] \in Nat
    BY LogType
  <2> QED
    BY <1>1, <2>1
<1>5. /\ first_id'[t][c] = end
      /\ o # t \/ k # c => first_id'[o][k] = first_id[o][k]
  BY <1>1 DEF TypeOK
<1>6. \A i \in 0 .. current_id[o][k] - 1 :
        /\ transactions'[o][k][i].kind = transactions[o][k][i].kind
        /\ transactions'[o][k][i].done = transactions[o][k][i].done
  BY <1>1, FlagPendingLog
<1>7. CASE id \in 0 .. first_id[o][k] - 1
  <2>1. id \in 0 .. current_id[o][k] - 1 /\ Accounted(o, k, id)
    BY <1>7, SentAreEntries DEF NoneForgotten
  <2>2. epoch'[o] = epoch[o]
    BY <1>1
  <2>3. /\ transactions'[o][k][id].kind = transactions[o][k][id].kind
        /\ transactions[o][k][id].done => transactions'[o][k][id].done
    BY <1>6, <2>1
  <2> QED
    BY <1>3, <2>1, <2>2, <2>3, AccountedKeeps
<1>8. CASE id \notin 0 .. first_id[o][k] - 1
  <2>1. o = t /\ k = c
    BY <1>5, <1>8
  <2>2. id \in first_id[t][c] .. end - 1 /\ id \in 0 .. current_id[t][c] - 1
    BY <1>4, <1>5, <1>8, <2>1
  <2>3. \/ transactions[t][c][id].kind = "dependency"
        \/ transactions[t][c][id].done
        \/ id \in ids
    BY <1>1, <2>2 DEF Taken
  <2>4. CASE id \in ids
    <3>1. SameLog(n, Current(t, c, id))'
      BY <1>1, <1>2 DEF SameLog, Current
    <3> QED
      BY <1>2, <1>3, <2>1, <2>4, <3>1 DEF Accounted
  <2>5. CASE id \notin ids
    BY <1>6, <2>1, <2>2, <2>3, <2>5 DEF Accounted
  <2> QED
    BY <2>4, <2>5
<1> QED
  BY <1>7, <1>8

\* A batch goes on: it keeps what it has still to flag, and ends when it has
\* flagged everything.
LEMMA ExecuteForgets ==
    ASSUME TypeOK, TypeOK', SubmitInv, NoneForgotten, NEW b, NEW s, NEW ids, NEW ended,
           Executes(b, s, ids, ended)
    PROVE  NoneForgotten'
<1>0. UNCHANGED <<epoch, first_id, current_id>>
  BY DEF Executes
<1> SUFFICES ASSUME Connected, NEW o \in Owner, NEW k \in Collection,
                    NEW id \in 0 .. first_id[o][k] - 1
             PROVE  Accounted(o, k, id)'
  BY <1>0 DEF NoneForgotten
<1>1. id \in 0 .. current_id[o][k] - 1 /\ Accounted(o, k, id)
  BY SentAreEntries DEF NoneForgotten
<1>2. Current(o, k, id)' = Current(o, k, id)
  BY <1>0 DEF Current
<1>3. InFlight' = (InFlight \ {b}) \cup (IF ended THEN {} ELSE {s})
  BY ExecuteSubmit
<1>4. /\ transactions'[o][k][id].kind = transactions[o][k][id].kind
      /\ transactions[o][k][id].done => transactions'[o][k][id].done
      /\ o = b.owner /\ k = b.collection /\ id \in ids =>
           transactions'[o][k][id].done
  BY <1>1 DEF Executes, Stores
<1>5. /\ SameLog(s, b) /\ s.undone = b.undone \ ids
      /\ ended => s.undone = {}
  BY DEF Executes
<1>6. CASE \/ transactions[o][k][id].kind = "dependency"
           \/ transactions[o][k][id].done
  BY <1>4, <1>6 DEF Accounted
<1>7. ASSUME NEW a \in InFlight, SameLog(a, Current(o, k, id)), id \in a.undone
      PROVE  Accounted(o, k, id)'
  <2>1. CASE a # b
    BY <1>2, <1>3, <1>7, <2>1 DEF Accounted, SameLog
  <2>2. CASE a = b
    <3>1. o = b.owner /\ k = b.collection
      BY <1>7, <2>2 DEF SameLog, Current
    <3>2. CASE id \in ids
      BY <1>4, <3>1, <3>2 DEF Accounted
    <3>3. CASE id \notin ids
      <4>1. id \in s.undone /\ s \in InFlight' /\ SameLog(s, Current(o, k, id))
        BY <1>3, <1>5, <1>7, <2>2, <3>3 DEF SameLog
      <4> QED
        BY <1>2, <4>1 DEF Accounted, SameLog
    <3> QED
      BY <3>2, <3>3
  <2> QED
    BY <2>1, <2>2
<1> QED
  BY <1>1, <1>6, <1>7 DEF Accounted

\* Every step keeps every operation accounted for.
LEMMA NextForgets ==
    TypeOK /\ TypeOK' /\ SubmitInv /\ NoneForgotten /\ [Next]_vars => NoneForgotten'
<1> SUFFICES ASSUME TypeOK, TypeOK', SubmitInv, NoneForgotten, [Next]_vars
             PROVE  NoneForgotten'
  OBVIOUS
<1> USE DEF logVars, timeVars, lifeVars, poolVars
<1>0. ASSUME UNCHANGED <<epoch, first_id, transactions, queue, running>>
      PROVE  NoneForgotten'
  BY <1>0 DEF NoneForgotten, Accounted, InFlight, SameLog, Current
<1>1. ASSUME NEW t \in Owner, NEW c \in Collection,
             \/ PushOperation(t, c) \/ PushCallable(t, c)
             \/ \E o \in Owner, id \in 0 .. MaxSlots - 1 : PushDependency(t, c, o, id)
      PROVE  NoneForgotten'
  <2>1. CASE PushOperation(t, c)
    BY <2>1, NewEntryType, PushForgets DEF PushOperation
  <2>2. CASE PushCallable(t, c)
    BY <2>2, NewEntryType, PushForgets DEF PushCallable
  <2>3. ASSUME NEW o \in Owner, NEW id \in 0 .. MaxSlots - 1,
               PushDependency(t, c, o, id)
        PROVE  NoneForgotten'
    <3> DEFINE on == [owner |-> o, epoch |-> epoch[o], collection |-> c, id |-> id]
    <3>1. on \in Operation
      BY ConstantsAssumption DEF Operation, TypeOK
    <3>2. Push(t, c, NewEntry("dependency", on))
      BY <2>3 DEF PushDependency
    <3>3. NewEntry("dependency", on) \in Entry
      BY <3>1, NewEntryType
    <3> QED
      BY <3>2, <3>3, PushForgets
  <2> QED
    BY <1>1, <2>1, <2>2, <2>3
<1>2. ASSUME NEW t \in Owner, FlagDeletion(t) \/ UnflagDeletion(t) \/ Remove(t)
      PROVE  NoneForgotten'
  BY <1>0, <1>2 DEF FlagDeletion, UnflagDeletion, Remove
<1>3. ASSUME NEW t \in Owner, Reinit(t)
      PROVE  NoneForgotten'
  BY <1>3, ReinitForgets
<1>4. ASSUME NEW t \in Owner, UpdateHead(t)
      PROVE  NoneForgotten'
  BY <1>0, <1>4 DEF UpdateHead, CheckCollection, UpdateSchedules, UpdateIdle, UpdateStart
<1>5. ASSUME NEW t \in Owner, SkipCollection(t)
      PROVE  NoneForgotten'
  BY <1>0, <1>5 DEF SkipCollection
<1>6. ASSUME NEW t \in Owner, NothingPending(t)
      PROVE  NoneForgotten'
  <2>1. PICK c \in Collection : \E end \in first_id[t][c] .. current_id[t][c] :
          /\ Taken(t, c, end) = {}
          /\ first_id' = [first_id EXCEPT ![t][c] = end]
    BY <1>6, CursorCollection DEF NothingPending
  <2>2. UNCHANGED <<epoch, transactions, queue, running>>
    BY <1>6 DEF NothingPending
  <2> QED
    BY <2>1, <2>2, PassForgets
<1>7. ASSUME NEW t \in Owner, SendBatch(t)
      PROVE  NoneForgotten'
  <2>1. PICK c \in Collection : \E end, ids, n : Sends(t, c, end, ids, n)
    BY <1>7, SendBatchSends
  <2> QED
    BY <2>1, SendForgets
<1>8. CASE StartBatch
  <2>1. InFlight' = InFlight
    BY <1>8, StartSubmit
  <2>2. UNCHANGED <<epoch, first_id, transactions>>
    BY <1>8 DEF StartBatch
  <2> QED
    BY <2>1, <2>2 DEF NoneForgotten, Accounted, SameLog, Current
<1>9. ASSUME NEW b \in running, Execute(b)
      PROVE  NoneForgotten'
  <2>1. PICK s, ids, ended : Executes(b, s, ids, ended)
    BY <1>9, ExecuteExecutes
  <2> QED
    BY <2>1, ExecuteForgets
<1>10. CASE UNCHANGED vars
  BY <1>0, <1>10 DEF vars
<1> QED
  BY <1>1, <1>2, <1>3, <1>4, <1>5, <1>6, <1>7, <1>8, <1>9, <1>10
     DEF Next, User, UpdateBody

\* No operation that update() went past is forgotten: it is done, or a batch in
\* flight has still to flag it, for any number of owners, collections and
\* database threads, and also when bulks fail and objects are used again.
THEOREM NoneIsForgotten == Spec => []NoneForgotten
<1>1. Init => NoneForgotten
  BY DEF Init, NoneForgotten
<1> QED
  BY <1>1, InitType, NextType, SubmitInvariant, NextForgets, TypeCorrect, PTL DEF Spec
----------------------------------------------------------------------------
(***************************************************************************)
(* The counter of the callables that wait, for any number of threads. The  *)
(* logs have at most MaxSlots entries and nothing from first_id on is done,*)
(* so what is counted is a finite set, and a batch of callables takes just *)
(* its own from it.                                                        *)
(***************************************************************************)

\* A remainder is the only one.
LEMMA ModuloUnique ==
    ASSUME NEW m \in Nat \ {0}, NEW n \in Int, NEW q \in Int, NEW r \in 0 .. m - 1,
           n = m * q + r
    PROVE  n % m = r
OBVIOUS

\* The remainder of a sum needs only the remainder of a summand.
LEMMA ModuloSum ==
    ASSUME NEW m \in Nat \ {0}, NEW n \in Int, NEW k \in Int
    PROVE  ((n % m) + k) % m = (n + k) % m
<1> DEFINE x == (n % m) + k
<1>1. \A y \in Int : /\ y \div m \in Int
                     /\ y % m \in 0 .. m - 1
                     /\ y = m * (y \div m) + (y % m)
  BY Z3
<1>2. x \in Int
  BY <1>1
<1>3. n = m * (n \div m) + (n % m) /\ x = m * (x \div m) + (x % m)
  BY <1>1, <1>2
<1>4. n \div m \in Int /\ x \div m \in Int /\ x % m \in 0 .. m - 1 /\ n % m \in Int
  BY <1>1, <1>2
<1>5. \A a, b, r, s \in Int : n = m * a + r /\ r + k = m * b + s =>
        n + k = m * (a + b) + s
  BY Z3
<1>6. n + k = m * ((n \div m) + (x \div m)) + (x % m)
  BY <1>3, <1>4, <1>5
<1>7. n + k \in Int /\ (n \div m) + (x \div m) \in Int
  BY <1>4
<1> HIDE DEF x
<1>8. (n + k) % m = x % m
  BY <1>4, <1>6, <1>7, ModuloUnique
<1> QED
  BY <1>8 DEF x

\* There are finitely many collections.
LEMMA CollectionFinite == IsFiniteSet(Collection)
<1> DEFINE S == 1 .. Len(Collections)
           f == [k \in S |-> Collections[k]]
<1>1. Len(Collections) \in Nat
  BY ConstantsAssumption
<1>2. f \in Surjection(S, Collection)
  BY DEF Surjection, Collection
<1>3. IsFiniteSet(S)
  BY <1>1, FS_Interval
<1> HIDE DEF S, f
<1> QED
  BY <1>2, <1>3, FS_Surjection

\* The callables of an owner that wait, as PendingCallablesExact counts them.
Waiting(t) ==
    {p \in Collection \X (0 .. MaxSlots - 1) :
        /\ p[2] \in first_id[t][p[1]] .. current_id[t][p[1]] - 1
        /\ transactions[t][p[1]][p[2]].kind = "callable"}

\* They are finitely many.
LEMMA WaitingFinite ==
    \A t : IsFiniteSet(Waiting(t)) /\ Cardinality(Waiting(t)) \in Nat
<1>1. IsFiniteSet(0 .. MaxSlots - 1)
  BY ConstantsAssumption, FS_Interval
<1>2. IsFiniteSet(Collection \X (0 .. MaxSlots - 1))
  BY <1>1, CollectionFinite, FS_Product
<1>3. \A t : Waiting(t) \subseteq Collection \X (0 .. MaxSlots - 1)
  BY DEF Waiting
<1>4. \A t : IsFiniteSet(Waiting(t))
  BY <1>2, <1>3, FS_Subset
<1> QED
  BY <1>4, FS_CardinalityType

\* The logs stay within their bound.
SlotsBounded == \A t \in Owner, c \in Collection : current_id[t][c] <= MaxSlots

CountInv == SlotsBounded /\ PendingCallablesExact

\* The counter is exact when it is the number of what waits.
LEMMA CountByWaiting ==
    PendingCallablesExact <=>
        \A t \in Owner :
            pending_callables[t] = Cardinality(Waiting(t)) % CounterModulus
BY DEF PendingCallablesExact, Waiting

\* What waits is the same when the log is, as far as it is counted.
LEMMA WaitingKept ==
    ASSUME NEW t \in Owner,
           \A c \in Collection : \A id \in 0 .. MaxSlots - 1 :
              (/\ id \in first_id[t][c] .. current_id[t][c] - 1
               /\ transactions[t][c][id].kind = "callable")
              <=>
              (/\ id \in first_id'[t][c] .. current_id'[t][c] - 1
               /\ transactions'[t][c][id].kind = "callable")
    PROVE  Waiting(t)' = Waiting(t)
<1>1. \A p \in Collection \X (0 .. MaxSlots - 1) :
        p[1] \in Collection /\ p[2] \in 0 .. MaxSlots - 1
  OBVIOUS
<1>2. \A p : p \in Waiting(t)' <=> p \in Waiting(t)
  BY <1>1 DEF Waiting
<1> QED
  BY <1>2 DEF Waiting

\* The remainder of the counter goes along when callables come or go.
LEMMA CountAdds ==
    ASSUME NEW n \in Nat, NEW k \in Int, NEW p, p = n % CounterModulus
    PROVE  (p + k) % CounterModulus = (n + k) % CounterModulus
<1>1. CounterModulus \in Nat \ {0}
  BY ConstantsAssumption
<1>2. n \in Int
  OBVIOUS
<1>3. ((n % CounterModulus) + k) % CounterModulus = (n + k) % CounterModulus
  BY <1>1, <1>2, ModuloSum, Zenon
<1> QED
  BY <1>3, Zenon
\* A callable that is pushed is counted and waits; another entry is neither.
LEMMA PushCounts ==
    ASSUME TypeOK, TypeOK', SubmitInv, CountInv,
           NEW t \in Owner, NEW c \in Collection, NEW e \in Entry, Push(t, c, e),
           pending_callables' =
             IF e.kind = "callable"
             THEN [pending_callables EXCEPT ![t] = (@ + 1) % CounterModulus]
             ELSE pending_callables
    PROVE  CountInv'
<1>a. PICK n : n = current_id[t][c]
  OBVIOUS
<1>1. /\ n \in Nat /\ n < MaxSlots /\ MaxSlots \in Nat
      /\ first_id[t][c] \in Nat /\ first_id[t][c] <= n
      /\ first_id' = first_id
  BY <1>a, LogType, ConstantsAssumption DEF Push, SubmitInv, Frontier
<1>2. /\ current_id'[t][c] = n + 1
      /\ \A o \in Owner, k \in Collection : o # t \/ k # c =>
          /\ current_id'[o][k] = current_id[o][k]
          /\ transactions'[o][k] = transactions[o][k]
      /\ transactions'[t][c][n] = e
      /\ \A id \in 0 .. n - 1 : transactions'[t][c][id] = transactions[t][c][id]
  BY <1>a, PushLog
<1>3. \A id \in 0 .. MaxSlots - 1 :
        /\ id \in first_id[t][c] .. n => id = n \/ id \in first_id[t][c] .. n - 1
        /\ id \in first_id[t][c] .. n - 1 => id # n /\ id \in 0 .. n - 1
        /\ id \in first_id[t][c] .. n - 1 => id \in first_id[t][c] .. n
  BY <1>1
<1>4. n \in 0 .. MaxSlots - 1 /\ n \in first_id[t][c] .. n /\ n + 1 - 1 = n
  BY <1>1
<1>5. SlotsBounded'
  <2>1. ASSUME NEW o \in Owner, NEW k \in Collection
        PROVE  current_id'[o][k] <= MaxSlots
    <3>1. CASE o = t /\ k = c
      BY <1>1, <1>2, <3>1
    <3>2. CASE o # t \/ k # c
      BY <1>2, <3>2 DEF CountInv, SlotsBounded
    <3> QED
      BY <3>1, <3>2
  <2> QED
    BY <2>1 DEF SlotsBounded
<1>6. \A o \in Owner : o # t => Waiting(o)' = Waiting(o)
  BY <1>1, <1>2, WaitingKept
<1>7. pending_callables \in [Owner -> 0 .. CounterModulus - 1]
  BY DEF TypeOK
<1>8. \A o \in Owner : o # t => pending_callables'[o] = pending_callables[o]
  BY <1>7
<1>9. \A o \in Owner :
        pending_callables[o] = Cardinality(Waiting(o)) % CounterModulus
  BY CountByWaiting DEF CountInv
<1>10. pending_callables'[t] = Cardinality(Waiting(t)') % CounterModulus
  <2>1. CASE e.kind # "callable"
    <3>1. \A k \in Collection : \A id \in 0 .. MaxSlots - 1 :
            (/\ id \in first_id[t][k] .. current_id[t][k] - 1
             /\ transactions[t][k][id].kind = "callable")
            <=>
            (/\ id \in first_id'[t][k] .. current_id'[t][k] - 1
             /\ transactions'[t][k][id].kind = "callable")
      <4>1. ASSUME NEW k \in Collection, k # c
            PROVE  /\ current_id'[t][k] = current_id[t][k]
                   /\ transactions'[t][k] = transactions[t][k]
        BY <1>2, <4>1
      <4> QED
        BY <1>a, <1>1, <1>2, <1>3, <1>4, <2>1, <4>1
    <3>2. Waiting(t)' = Waiting(t)
      BY <3>1, WaitingKept
    <3> QED
      BY <1>9, <2>1, <3>2
  <2>2. CASE e.kind = "callable"
    <3>1. ASSUME NEW k \in Collection, NEW id \in 0 .. MaxSlots - 1
          PROVE  <<k, id>> \in Waiting(t)' <=> <<k, id>> \in Waiting(t) \/ <<k, id>> = <<c, n>>
      <4>1. CASE k # c
        BY <1>1, <1>2, <4>1 DEF Waiting
      <4>2. CASE k = c
        BY <1>a, <1>1, <1>2, <1>3, <1>4, <2>2, <4>2 DEF Waiting
      <4> QED
        BY <4>1, <4>2
    <3>2. \A p : p \in Waiting(t) \/ p \in Waiting(t)' =>
            \E k \in Collection, id \in 0 .. MaxSlots - 1 : p = <<k, id>>
      BY DEF Waiting
    <3>3. Waiting(t)' = Waiting(t) \cup {<<c, n>>}
      BY <1>4, <3>1, <3>2
    <3>4. <<c, n>> \notin Waiting(t)
      BY <1>a, <1>1 DEF Waiting
    <3>5. Cardinality(Waiting(t)') = Cardinality(Waiting(t)) + 1
      BY <3>3, <3>4, WaitingFinite, FS_AddElement
    <3>6. pending_callables'[t] = (pending_callables[t] + 1) % CounterModulus
      BY <1>7, <2>2
    <3>7. Cardinality(Waiting(t)) \in Nat /\ 1 \in Int
      BY WaitingFinite
    <3>8. (pending_callables[t] + 1) % CounterModulus =
             (Cardinality(Waiting(t)) + 1) % CounterModulus
      BY <1>9, <3>7, CountAdds
    <3> QED
      BY <3>5, <3>6, <3>8
  <2> QED
    BY <2>1, <2>2
<1>11. \A o \in Owner :
         pending_callables'[o] = Cardinality(Waiting(o)') % CounterModulus
  BY <1>6, <1>8, <1>9, <1>10
<1>12. PendingCallablesExact'
  BY <1>11 DEF PendingCallablesExact, Waiting
<1> QED
  BY <1>5, <1>12 DEF CountInv
\* An object that is initialised again has no callables.
LEMMA ReinitCounts ==
    ASSUME TypeOK, CountInv, NEW t \in Owner, Reinit(t)
    PROVE  CountInv'
<1>1. /\ first_id' = [first_id EXCEPT ![t] = [c \in Collection |-> 0]]
      /\ current_id' = [current_id EXCEPT ![t] = [c \in Collection |-> 0]]
      /\ transactions' = [transactions EXCEPT ![t] = [c \in Collection |-> <<>>]]
      /\ pending_callables' = [pending_callables EXCEPT ![t] = 0]
  BY DEF Reinit
<1>2. /\ \A c \in Collection : current_id'[t][c] = 0 /\ first_id'[t][c] = 0
      /\ pending_callables'[t] = 0
      /\ \A o \in Owner : o # t =>
          /\ pending_callables'[o] = pending_callables[o]
          /\ first_id'[o] = first_id[o]
          /\ current_id'[o] = current_id[o]
          /\ transactions'[o] = transactions[o]
  BY <1>1 DEF TypeOK
<1>3. SlotsBounded'
  BY <1>2, ConstantsAssumption DEF CountInv, SlotsBounded
<1>4. \A o \in Owner : o # t => Waiting(o)' = Waiting(o)
  BY <1>2, WaitingKept
<1>5. Waiting(t)' = {}
  BY <1>2 DEF Waiting
<1>6. Cardinality(Waiting(t)') = 0
  BY <1>5, FS_EmptySet
<1>7. 0 % CounterModulus = 0
  <2>1. CounterModulus \in Nat \ {0}
    BY ConstantsAssumption
  <2>2. 0 \in 0 .. CounterModulus - 1 /\ 0 = CounterModulus * 0 + 0
    BY <2>1
  <2> QED
    BY <2>1, <2>2, ModuloUnique
<1>8. \A o \in Owner :
        pending_callables'[o] = Cardinality(Waiting(o)') % CounterModulus
  BY <1>2, <1>4, <1>6, <1>7, CountByWaiting DEF CountInv
<1> QED
  BY <1>3, <1>8 DEF CountInv, PendingCallablesExact, Waiting

\* The callables a scan collects no longer wait, and no others.
LEMMA TakenCounts ==
    ASSUME TypeOK, SubmitInv, CountInv, NEW t \in Owner, NEW c \in Collection,
           NEW end \in first_id[t][c] .. current_id[t][c],
           first_id' = [first_id EXCEPT ![t][c] = end],
           current_id' = current_id,
           \A o \in Owner, k \in Collection : \A id \in 0 .. current_id[o][k] - 1 :
              transactions'[o][k][id].kind = transactions[o][k][id].kind,
           pending_callables' = [pending_callables EXCEPT ![t] =
              (@ - Cardinality(Callables(t, c, Taken(t, c, end)))) % CounterModulus]
    PROVE  CountInv'
<1>a. PICK ids : ids = Callables(t, c, Taken(t, c, end))
  OBVIOUS
<1>b. PICK n : n = current_id[t][c]
  OBVIOUS
<1>1. /\ n \in Nat /\ n <= MaxSlots /\ MaxSlots \in Nat
      /\ first_id[t][c] \in Nat /\ first_id[t][c] <= end /\ end \in Nat /\ end <= n
  BY <1>b, LogType, ConstantsAssumption DEF CountInv, SlotsBounded
<1>2. /\ first_id'[t][c] = end
      /\ \A o \in Owner, k \in Collection : o # t \/ k # c =>
           first_id'[o][k] = first_id[o][k]
      /\ \A o \in Owner, k \in Collection : first_id[o][k] \in Nat /\ current_id[o][k] \in Nat
  BY DEF TypeOK
<1>3. SlotsBounded'
  BY DEF CountInv, SlotsBounded
<1>4. \A o \in Owner, k \in Collection : \A id \in 0 .. MaxSlots - 1 :
        id \in first_id[o][k] .. current_id[o][k] - 1 =>
          transactions'[o][k][id].kind = transactions[o][k][id].kind
  BY <1>2
<1>5. \A o \in Owner : o # t => Waiting(o)' = Waiting(o)
  BY <1>2, <1>4, WaitingKept
<1>6. \A id \in first_id[t][c] .. n - 1 : ~transactions[t][c][id].done
  BY <1>b DEF SubmitInv, Frontier
<1>7. \A id : id \in ids <=> /\ id \in first_id[t][c] .. end - 1
                             /\ transactions[t][c][id].kind = "callable"
  <2>1. first_id[t][c] .. end - 1 \subseteq first_id[t][c] .. n - 1
    BY <1>1
  <2> QED
    BY <1>a, <1>6, <2>1 DEF Callables, Taken
<1>8. IsFiniteSet(ids) /\ Cardinality(ids) \in Nat
  <2>1. IsFiniteSet(first_id[t][c] .. end - 1)
    <3>1. first_id[t][c] \in Int /\ end - 1 \in Int
      BY <1>1
    <3> QED
      BY <3>1, FS_Interval
  <2>2. ids \subseteq first_id[t][c] .. end - 1
    BY <1>7
  <2> QED
    BY <2>1, <2>2, FS_Subset, FS_CardinalityType
<1>9. \A id \in 0 .. MaxSlots - 1 :
        id \in first_id[t][c] .. n - 1 <=>
          id \in first_id[t][c] .. end - 1 \/ id \in end .. n - 1
  BY <1>1
<1>10. \A id : /\ id \in first_id[t][c] .. end - 1 => id \in 0 .. MaxSlots - 1
               /\ id \in end .. n - 1 => id \notin first_id[t][c] .. end - 1
  BY <1>1
<1>11. ASSUME NEW k \in Collection, NEW id \in 0 .. MaxSlots - 1
       PROVE  <<k, id>> \in Waiting(t)' <=>
                <<k, id>> \in Waiting(t) /\ <<k, id>> \notin {c} \X ids
  <2>1. CASE k # c
    BY <1>2, <1>4, <2>1 DEF Waiting
  <2>2. CASE k = c
    BY <1>b, <1>2, <1>4, <1>7, <1>9, <1>10, <2>2 DEF Waiting
  <2> QED
    BY <2>1, <2>2
<1>12. \A p : p \in Waiting(t) \/ p \in Waiting(t)' =>
         \E k \in Collection, id \in 0 .. MaxSlots - 1 : p = <<k, id>>
  BY DEF Waiting
<1>13. Waiting(t)' = Waiting(t) \ ({c} \X ids)
  BY <1>11, <1>12
<1>14. {c} \X ids \subseteq Waiting(t)
  BY <1>b, <1>7, <1>9, <1>10 DEF Waiting
<1>15. Cardinality({c} \X ids) = Cardinality(ids)
  <2>1. IsFiniteSet({c}) /\ Cardinality({c}) = 1
    BY FS_Singleton
  <2>2. Cardinality({c} \X ids) = 1 * Cardinality(ids)
    BY <1>8, <2>1, FS_Product
  <2> QED
    BY <1>8, <2>2
<1>16. Waiting(t) \cap ({c} \X ids) = {c} \X ids
  BY <1>14
<1>17. Cardinality(Waiting(t)') = Cardinality(Waiting(t)) - Cardinality(ids)
  <2>1. Cardinality(Waiting(t) \ ({c} \X ids)) =
          Cardinality(Waiting(t)) - Cardinality(Waiting(t) \cap ({c} \X ids))
    BY WaitingFinite, FS_Difference
  <2> QED
    BY <1>13, <1>15, <1>16, <2>1
<1>18. \A o \in Owner :
         pending_callables[o] = Cardinality(Waiting(o)) % CounterModulus
  BY CountByWaiting DEF CountInv
<1>19. pending_callables'[t] = Cardinality(Waiting(t)') % CounterModulus
  <2>1. pending_callables[t] \in Int
    BY DEF TypeOK
  <2>2. pending_callables'[t] = (pending_callables[t] + (0 - Cardinality(ids))) % CounterModulus
    <3>1. pending_callables'[t] = (pending_callables[t] - Cardinality(ids)) % CounterModulus
      BY <1>a DEF TypeOK
    <3>2. pending_callables[t] - Cardinality(ids) =
            pending_callables[t] + (0 - Cardinality(ids))
      BY <1>8, <2>1
    <3> QED
      BY <3>1, <3>2
  <2>3. 0 - Cardinality(ids) \in Int /\ Cardinality(Waiting(t)) \in Nat
    BY <1>8, WaitingFinite
  <2>4. (pending_callables[t] + (0 - Cardinality(ids))) % CounterModulus =
          (Cardinality(Waiting(t)) + (0 - Cardinality(ids))) % CounterModulus
    BY <1>18, <2>3, CountAdds
  <2>5. Cardinality(Waiting(t)) + (0 - Cardinality(ids)) = Cardinality(Waiting(t)')
    BY <1>8, <1>17, <2>3
  <2> QED
    BY <2>2, <2>4, <2>5
<1>20. \A o \in Owner : o # t => pending_callables'[o] = pending_callables[o]
  BY DEF TypeOK
<1>21. \A o \in Owner :
         pending_callables'[o] = Cardinality(Waiting(o)') % CounterModulus
  BY <1>5, <1>18, <1>19, <1>20
<1> QED
  BY <1>3, <1>21 DEF CountInv, PendingCallablesExact, Waiting
\* Flags and batches do not touch what is counted.
LEMMA KeepsCount ==
    ASSUME TypeOK, CountInv, UNCHANGED <<first_id, current_id, pending_callables>>,
           \A o \in Owner, k \in Collection : \A id \in 0 .. current_id[o][k] - 1 :
              transactions'[o][k][id].kind = transactions[o][k][id].kind
    PROVE  CountInv'
<1>1. \A o \in Owner, k \in Collection : first_id[o][k] \in Nat /\ current_id[o][k] \in Nat
  BY LogType
<1>2. \A o \in Owner, k \in Collection : \A id \in 0 .. MaxSlots - 1 :
        id \in first_id[o][k] .. current_id[o][k] - 1 =>
          transactions'[o][k][id].kind = transactions[o][k][id].kind
  BY <1>1
<1>3. \A o \in Owner : Waiting(o)' = Waiting(o)
  BY <1>2, WaitingKept
<1>4. \A o \in Owner :
        pending_callables'[o] = Cardinality(Waiting(o)') % CounterModulus
  BY <1>3, CountByWaiting DEF CountInv
<1>5. SlotsBounded'
  BY DEF CountInv, SlotsBounded
<1> QED
  BY <1>4, <1>5 DEF CountInv, PendingCallablesExact, Waiting

\* Every step keeps the counter exact.
LEMMA NextCounts ==
    TypeOK /\ TypeOK' /\ SubmitInv /\ CountInv /\ [Next]_vars => CountInv'
<1> SUFFICES ASSUME TypeOK, TypeOK', SubmitInv, CountInv, [Next]_vars
             PROVE  CountInv'
  OBVIOUS
<1> USE DEF logVars, timeVars, lifeVars, poolVars
<1>0. ASSUME UNCHANGED <<first_id, current_id, transactions, pending_callables>>
      PROVE  CountInv'
  BY <1>0, KeepsCount
<1>1. ASSUME NEW t \in Owner, NEW c \in Collection, PushOperation(t, c)
      PROVE  CountInv'
  <2>1. NewEntry("write", <<>>).kind # "callable"
    BY DEF NewEntry
  <2> QED
    BY <1>1, <2>1, NewEntryType, PushCounts DEF PushOperation
<1>2. ASSUME NEW t \in Owner, NEW c \in Collection, PushCallable(t, c)
      PROVE  CountInv'
  <2>1. NewEntry("callable", <<>>).kind = "callable"
    BY DEF NewEntry
  <2> QED
    BY <1>2, <2>1, NewEntryType, PushCounts DEF PushCallable
<1>3. ASSUME NEW t \in Owner, NEW c \in Collection, NEW o \in Owner,
             NEW id \in 0 .. MaxSlots - 1, PushDependency(t, c, o, id)
      PROVE  CountInv'
  <2> DEFINE on == [owner |-> o, epoch |-> epoch[o], collection |-> c, id |-> id]
  <2>1. on \in Operation
    BY ConstantsAssumption DEF Operation, TypeOK
  <2>2. Push(t, c, NewEntry("dependency", on)) /\ UNCHANGED pending_callables
    BY <1>3 DEF PushDependency
  <2>3. NewEntry("dependency", on) \in Entry
    BY <2>1, NewEntryType
  <2>4. NewEntry("dependency", on).kind # "callable"
    BY DEF NewEntry
  <2> QED
    BY <2>2, <2>3, <2>4, PushCounts
<1>4. ASSUME NEW t \in Owner, FlagDeletion(t) \/ UnflagDeletion(t) \/ Remove(t)
      PROVE  CountInv'
  BY <1>0, <1>4 DEF FlagDeletion, UnflagDeletion, Remove
<1>5. ASSUME NEW t \in Owner, Reinit(t)
      PROVE  CountInv'
  BY <1>5, ReinitCounts
<1>6. ASSUME NEW t \in Owner, UpdateHead(t) \/ SkipCollection(t)
      PROVE  CountInv'
  BY <1>0, <1>6 DEF UpdateHead, CheckCollection, UpdateSchedules, UpdateIdle, UpdateStart,
     SkipCollection
<1>7. ASSUME NEW t \in Owner, NothingPending(t)
      PROVE  CountInv'
  <2>1. PICK c \in Collection : \E end \in first_id[t][c] .. current_id[t][c] :
          /\ Taken(t, c, end) = {}
          /\ first_id' = [first_id EXCEPT ![t][c] = end]
    BY <1>7, CursorCollection DEF NothingPending
  <2>2. PICK end \in first_id[t][c] .. current_id[t][c] :
          /\ Taken(t, c, end) = {}
          /\ first_id' = [first_id EXCEPT ![t][c] = end]
    BY <2>1
  <2>3. UNCHANGED <<current_id, transactions, pending_callables>>
    BY <1>7 DEF NothingPending
  <2>4. Cardinality(Callables(t, c, Taken(t, c, end))) = 0
    BY <2>2, FS_EmptySet DEF Callables
  <2>5. pending_callables[t] % CounterModulus = pending_callables[t]
    <3>1. CounterModulus \in Nat \ {0} /\ pending_callables[t] \in 0 .. CounterModulus - 1
      BY ConstantsAssumption DEF TypeOK
    <3>2. /\ pending_callables[t] \in Int /\ 0 \in Int
          /\ pending_callables[t] = CounterModulus * 0 + pending_callables[t]
      BY <3>1
    <3> QED
      BY <3>1, <3>2, ModuloUnique
  <2>6. (pending_callables[t] - 0) % CounterModulus = pending_callables[t]
    <3>1. pending_callables[t] - 0 = pending_callables[t]
      BY DEF TypeOK
    <3> QED
      BY <2>5, <3>1
  <2>7. pending_callables' = [pending_callables EXCEPT ![t] = (@ - 0) % CounterModulus]
    BY <2>3, <2>6 DEF TypeOK
  <2> QED
    BY <2>2, <2>3, <2>4, <2>7, TakenCounts
<1>8. ASSUME NEW t \in Owner, SendBatch(t)
      PROVE  CountInv'
  <2>1. PICK c \in Collection : \E end \in first_id[t][c] .. current_id[t][c] :
          /\ first_id' = [first_id EXCEPT ![t][c] = end]
          /\ transactions' = FlagPending(t, c, Taken(t, c, end))
          /\ pending_callables' = [pending_callables EXCEPT ![t] =
               (@ - Cardinality(Callables(t, c, Taken(t, c, end)))) % CounterModulus]
    BY <1>8, CursorCollection DEF SendBatch
  <2>2. UNCHANGED current_id
    BY <1>8 DEF SendBatch
  <2>3. PICK end \in first_id[t][c] .. current_id[t][c] :
          /\ first_id' = [first_id EXCEPT ![t][c] = end]
          /\ transactions' = FlagPending(t, c, Taken(t, c, end))
          /\ pending_callables' = [pending_callables EXCEPT ![t] =
               (@ - Cardinality(Callables(t, c, Taken(t, c, end)))) % CounterModulus]
    BY <2>1
  <2>4. \A o \in Owner, k \in Collection : \A id \in 0 .. current_id[o][k] - 1 :
          transactions'[o][k][id].kind = transactions[o][k][id].kind
    BY <2>3, FlagPendingLog
  <2> QED
    BY <2>2, <2>3, <2>4, TakenCounts
<1>9. CASE StartBatch
  BY <1>0, <1>9 DEF StartBatch
<1>10. ASSUME NEW b \in running, Execute(b)
      PROVE  CountInv'
  <2>1. PICK s, ids, ended : Executes(b, s, ids, ended)
    BY <1>10, ExecuteExecutes
  <2> QED
    BY <2>1, KeepsCount DEF Executes, Stores
<1>11. CASE UNCHANGED vars
  BY <1>0, <1>11 DEF vars
<1> QED
  BY <1>1, <1>2, <1>3, <1>4, <1>5, <1>6, <1>7, <1>8, <1>9, <1>10, <1>11
     DEF Next, User, UpdateBody

\* _pending_callables is the number of callables that wait, modulo its width:
\* none is counted twice or not at all, whatever batches a log is cut into, and
\* the counter of an object that is used again starts at what its log holds.
THEOREM CallablesCounted == Spec => []PendingCallablesExact
<1>1. Init => CountInv
  <2> SUFFICES ASSUME Init PROVE CountInv
    OBVIOUS
  <2>1. \A t \in Owner : pending_callables[t] = 0
    BY DEF Init
  <2>2. \A t \in Owner : Waiting(t) = {}
    BY DEF Init, Waiting
  <2>3. \A t \in Owner : Cardinality(Waiting(t)) = 0
    BY <2>2, FS_EmptySet
  <2>4. 0 % CounterModulus = 0
    <3>1. CounterModulus \in Nat \ {0}
      BY ConstantsAssumption
    <3>2. 0 \in 0 .. CounterModulus - 1 /\ 0 = CounterModulus * 0 + 0
      BY <3>1
    <3> QED
      BY <3>1, <3>2, ModuloUnique
  <2>5. PendingCallablesExact
    BY <2>1, <2>3, <2>4, CountByWaiting
  <2>6. SlotsBounded
    BY ConstantsAssumption DEF SlotsBounded, Init
  <2> QED
    BY <2>5, <2>6 DEF CountInv
<1>2. CountInv => PendingCallablesExact
  BY DEF CountInv
<1> QED
  BY <1>1, <1>2, InitType, NextType, SubmitInvariant, NextCounts, TypeCorrect, PTL DEF Spec

=============================================================================
