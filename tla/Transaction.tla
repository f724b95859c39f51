---------------------------- MODULE Transaction ----------------------------
(***************************************************************************)
(* transaction: the per-owner log of database operations. User code pushes *)
(* write operations, callables and dependencies into the log of one        *)
(* collection; update(), called for every owner in every tick, sends what  *)
(* can be sent to the database pool as batches; the pool's threads execute *)
(* a batch and flag its entries as done.                                   *)
(*                                                                         *)
(* Batches point into the owner's log, and init() clears the log for the   *)
(* next user of the object: what update() reports as deletable must be done*)
(* with. The two stores that flag an entry, done and then pending, are     *)
(* steps of their own: update() may run in between.                        *)
(*                                                                         *)
(* The steps of update() are one per collection that it asks whether it is *)
(* done, one for the time test, and one per collection that it scans: the  *)
(* pool's threads, and user code, run in between. Owners are updated one   *)
(* after the other (get_pending_operations reads the log of another owner  *)
(* without any lock).                                                      *)
(***************************************************************************)
EXTENDS Integers, Sequences, FiniteSets

CONSTANTS
    Owner,           \* the owners of a transaction object
    Collections,     \* the collection keys, in the order _collections iterates
    ExecuteEvery,    \* _execute_every
    Diffs,           \* the values of update()'s diff
    DbThreads,       \* threads of the database's fiber pool
    Connected,       \* the database's _is_connected
    BulkMayFail,     \* may the server refuse an operation of a bulk?
    CounterModulus,  \* 2^8, the width of _pending_callables
    Pushed,          \* what user code pushes: owner, collection and kind
    Deletable,       \* the owners user code may flag for deletion
    UsedInCheck,     \* may user code use an owner update() is about to give up?
    MaxSlots,        \* bound on the length of a log
    MaxEntries,      \* bound on the entries of all logs together
    MaxEpoch         \* bound on how often an object is initialised again

Collection == {Collections[k] : k \in 1 .. Len(Collections)}

Kinds == {"write", "callable", "dependency"}

ASSUME ConstantsAssumption ==
    /\ Collections \in Seq(Collection)
    /\ \A j, k \in 1 .. Len(Collections) :
          Collections[j] = Collections[k] => j = k
    /\ ExecuteEvery \in Nat
    /\ Diffs \subseteq Nat
    /\ DbThreads \in Nat \ {0}
    /\ Connected \in BOOLEAN
    /\ BulkMayFail \in BOOLEAN
    /\ CounterModulus \in Nat \ {0}
    /\ Pushed \subseteq Owner \X Collection \X Kinds
    /\ Deletable \subseteq Owner
    /\ UsedInCheck \in BOOLEAN
    /\ MaxSlots \in Nat
    /\ MaxEntries \in Nat
    /\ MaxEpoch \in Nat

VARIABLES
    present,               \* owners the id_to_transaction_getter finds
    epoch,                 \* how often the object has been initialised (history)
    first_id,              \* collection_info::first_id, by owner and collection
    current_id,            \* collection_info::current_id
    transactions,          \* collection_info::transactions
    since_last_execution,  \* _since_last_execution
    pending_callables,     \* _pending_callables
    flagged,               \* _flagged
    scheduled,             \* _scheduled
    checked,               \* the collections update() found done so far, as it
                           \* looks whether to give the owner up; 0 otherwise
    cursor,                \* update()'s position in Collections, 0 outside it
    queue,                 \* batches pushed to the fiber pool, not yet started
    running,               \* batches a pool thread is executing
    applied                \* operations the server carried out (history)

logVars  == <<epoch, first_id, current_id, transactions>>
timeVars == <<since_last_execution>>
lifeVars == <<present, flagged, scheduled, checked>>
poolVars == <<queue, running, applied>>
vars == <<present, epoch, first_id, current_id, transactions,
          since_last_execution, pending_callables, flagged, scheduled,
          checked, cursor, queue, running, applied>>

\* The operation or callable with an id in an owner's log.
Operation == [owner : Owner, epoch : Nat, collection : Collection, id : Nat]

\* A transaction_info. on is std::nullopt (no dependency) as <<>>, or the
\* operation to wait for; the epoch in it is history, the code stores owner, id.
Entry == [kind : Kinds, on : {<<>>} \cup Operation,
          pending : BOOLEAN, done : BOOLEAN]

\* The lambda of a database->execute call: it points to entries of one log, all
\* callables or all write operations. left are those to execute yet, undone
\* those to flag as done yet, ids those it has any store to make to.
Batch == [owner : Owner, epoch : Nat, collection : Collection, callable : BOOLEAN,
          ids : SUBSET Nat, left : SUBSET Nat, undone : SUBSET Nat]

\* One type of every variable.
TypeOK ==
    /\ present \subseteq Owner
    /\ epoch \in [Owner -> Nat]
    /\ first_id \in [Owner -> [Collection -> Nat]]
    /\ current_id \in [Owner -> [Collection -> Nat]]
    /\ DOMAIN transactions = Owner
    /\ \A t \in Owner :
        /\ DOMAIN transactions[t] = Collection
        /\ \A c \in Collection :
            transactions[t][c] \in [0 .. current_id[t][c] - 1 -> Entry]
    /\ since_last_execution \in [Owner -> Nat]
    /\ pending_callables \in [Owner -> 0 .. CounterModulus - 1]
    /\ flagged \in [Owner -> BOOLEAN]
    /\ scheduled \in [Owner -> BOOLEAN]
    /\ checked \in [Owner -> 0 .. Len(Collections)]
    /\ cursor \in [Owner -> 0 .. Len(Collections)]
    /\ queue \in Seq(Batch)
    /\ running \subseteq Batch
    /\ applied \subseteq Operation

\* Every object after its first init().
Init ==
    /\ present = Owner
    /\ epoch = [t \in Owner |-> 0]
    /\ first_id = [t \in Owner |-> [c \in Collection |-> 0]]
    /\ current_id = [t \in Owner |-> [c \in Collection |-> 0]]
    /\ transactions = [t \in Owner |-> [c \in Collection |-> <<>>]]
    /\ since_last_execution = [t \in Owner |-> 0]
    /\ pending_callables = [t \in Owner |-> 0]
    /\ flagged = [t \in Owner |-> FALSE]
    /\ scheduled = [t \in Owner |-> FALSE]
    /\ checked = [t \in Owner |-> 0]
    /\ cursor = [t \in Owner |-> 0]
    /\ queue = <<>>
    /\ running = {}
    /\ applied = {}

----------------------------------------------------------------------------
(***************************************************************************)
(* User code: pushes and deletion.                                         *)
(***************************************************************************)

\* May user code use an owner while update() looks whether to give it up?
Unchecked(t) == checked[t] = 0 \/ UsedInCheck

\* User code uses an owner that exists and that update() has not given up.
Usable(t) == t \in present /\ ~scheduled[t] /\ Unchecked(t)

\* The slots taken in all logs.
Slots == {s \in Owner \X Collection \X (0 .. MaxSlots - 1) :
            s[3] < current_id[s[1]][s[2]]}

NewEntry(kind, on) ==
    [kind |-> kind, on |-> on, pending |-> FALSE, done |-> FALSE]

\* The slot taken with current_id++ and filled.
Push(t, c, e) ==
    /\ Usable(t)
    /\ current_id[t][c] < MaxSlots
    /\ Cardinality(Slots) < MaxEntries
    /\ current_id' = [current_id EXCEPT ![t][c] = @ + 1]
    /\ transactions' = [transactions EXCEPT ![t][c] =
         [id \in 0 .. current_id[t][c] |->
            IF id = current_id[t][c] THEN e ELSE transactions[t][c][id]]]
    /\ UNCHANGED <<present, epoch, first_id, since_last_execution, flagged,
                   scheduled, checked, cursor, poolVars>>

PushOperation(t, c) ==
    /\ <<t, c, "write">> \in Pushed
    /\ Push(t, c, NewEntry("write", <<>>))
    /\ UNCHANGED pending_callables

\* Mistake: the callable is not counted.
PushCallableUncounted(t, c) ==
    /\ <<t, c, "callable">> \in Pushed
    /\ Push(t, c, NewEntry("callable", <<>>))
    /\ UNCHANGED pending_callables

PushCallable(t, c) ==
    /\ <<t, c, "callable">> \in Pushed
    /\ Push(t, c, NewEntry("callable", <<>>))
    /\ pending_callables' = [pending_callables EXCEPT ![t] =
                               (@ + 1) % CounterModulus]

\* User code passes an id a push on that owner and collection returned.
PushDependency(t, c, owner, id) ==
    /\ <<t, c, "dependency">> \in Pushed
    /\ owner \in present
    /\ id \in DOMAIN transactions[owner][c]
    /\ transactions[owner][c][id].kind # "dependency"
    /\ Push(t, c, NewEntry("dependency",
                [owner |-> owner, epoch |-> epoch[owner],
                 collection |-> c, id |-> id]))
    /\ UNCHANGED pending_callables

FlagDeletion(t) ==
    /\ t \in Deletable \cap present
    /\ ~flagged[t]
    /\ flagged' = [flagged EXCEPT ![t] = TRUE]
    /\ UNCHANGED <<present, logVars, timeVars, pending_callables, scheduled,
                   checked, cursor, poolVars>>

UnflagDeletion(t) ==
    /\ t \in present
    /\ flagged[t]
    /\ Unchecked(t)
    /\ flagged' = [flagged EXCEPT ![t] = FALSE]
    /\ scheduled' = [scheduled EXCEPT ![t] = FALSE]
    /\ UNCHANGED <<present, logVars, timeVars, pending_callables, checked,
                   cursor, poolVars>>

\* Mistake: a flagged owner is dropped whatever update() returned.
RemoveFlagged(t) ==
    /\ t \in present
    /\ flagged[t]
    /\ present' = present \ {t}
    /\ UNCHANGED <<logVars, timeVars, pending_callables, flagged, scheduled,
                   checked, cursor, poolVars>>

\* update() returned false: its caller drops the owner.
Remove(t) ==
    /\ t \in present
    /\ scheduled[t]
    /\ present' = present \ {t}
    /\ UNCHANGED <<logVars, timeVars, pending_callables, flagged, scheduled,
                   checked, cursor, poolVars>>

\* init() of a dropped object for its next user: the logs are cleared, and with
\* them the entries that batches of the previous user would point to.
Reinit(t) ==
    /\ t \notin present
    /\ epoch[t] < MaxEpoch
    /\ present' = present \cup {t}
    /\ epoch' = [epoch EXCEPT ![t] = @ + 1]
    /\ first_id' = [first_id EXCEPT ![t] = [c \in Collection |-> 0]]
    /\ current_id' = [current_id EXCEPT ![t] = [c \in Collection |-> 0]]
    /\ transactions' = [transactions EXCEPT ![t] = [c \in Collection |-> <<>>]]
    /\ since_last_execution' = [since_last_execution EXCEPT ![t] = 0]
    /\ pending_callables' = [pending_callables EXCEPT ![t] = 0]
    /\ flagged' = [flagged EXCEPT ![t] = FALSE]
    /\ scheduled' = [scheduled EXCEPT ![t] = FALSE]
    /\ UNCHANGED <<checked, cursor, poolVars>>

----------------------------------------------------------------------------
(***************************************************************************)
(* update().                                                               *)
(***************************************************************************)

\* The caller is about to call update(t, d): t exists, no other call runs. A
\* call that finds _scheduled set changes nothing: it is a stuttering step.
Calls(t) ==
    /\ t \in present
    /\ \A o \in Owner : cursor[o] = 0 /\ checked[o] = 0
    /\ ~(flagged[t] /\ scheduled[t])

\* Mistake: sent is taken for done.
LogDoneSent(t, c) == first_id[t][c] = current_id[t][c]

\* Mistake: a log without a last entry counts as not done.
LogDoneNonEmpty(t, c) ==
    /\ first_id[t][c] = current_id[t][c]
    /\ current_id[t][c] > 0
    /\ transactions[t][c][current_id[t][c] - 1].done

\* A log is done as far as can_delete is concerned: everything was sent, and the
\* last entry is done. For an empty log find(current_id - 1) finds nothing.
LogDone(t, c) ==
    /\ first_id[t][c] = current_id[t][c]
    /\ current_id[t][c] > 0 =>
          transactions[t][c][current_id[t][c] - 1].done

\* update() looks whether it can give t up, and has found the first collections,
\* as many as checked[t] says, to be done.
Checks(t) == (Calls(t) /\ flagged[t]) \/ checked[t] > 0

\* The next collection is done, and is not the last.
CheckCollection(t) ==
    /\ Checks(t)
    /\ checked[t] + 1 < Len(Collections)
    /\ LogDone(t, Collections[checked[t] + 1])
    /\ checked' = [checked EXCEPT ![t] = @ + 1]
    /\ UNCHANGED <<present, logVars, timeVars, pending_callables, flagged,
                   scheduled, cursor, poolVars>>

\* can_delete: all collections are done.
UpdateSchedules(t) ==
    /\ Checks(t)
    /\ checked[t] + 1 >= Len(Collections)
    /\ \A k \in checked[t] + 1 .. Len(Collections) : LogDone(t, Collections[k])
    /\ scheduled' = [scheduled EXCEPT ![t] = TRUE]
    /\ checked' = [checked EXCEPT ![t] = 0]
    /\ UNCHANGED <<present, logVars, timeVars, pending_callables, flagged,
                   cursor, poolVars>>

\* update() goes on: t is not to be deleted, or its next collection is not done.
GoesOn(t) ==
    \/ Calls(t) /\ ~flagged[t]
    \/ /\ Checks(t)
       /\ checked[t] < Len(Collections)
       /\ ~LogDone(t, Collections[checked[t] + 1])

\* No callable waits and not enough time has passed.
UpdateIdle(t, d) ==
    /\ GoesOn(t)
    /\ pending_callables[t] = 0
    /\ since_last_execution[t] + d < ExecuteEvery
    /\ since_last_execution' = [since_last_execution EXCEPT ![t] = @ + d]
    /\ checked' = [checked EXCEPT ![t] = 0]
    /\ UNCHANGED <<present, flagged, scheduled, logVars, pending_callables,
                   cursor, poolVars>>

UpdateStart(t, d) ==
    /\ GoesOn(t)
    /\ pending_callables[t] # 0 \/ since_last_execution[t] + d >= ExecuteEvery
    /\ since_last_execution' = [since_last_execution EXCEPT ![t] = 0]
    /\ checked' = [checked EXCEPT ![t] = 0]
    /\ cursor' = [cursor EXCEPT ![t] = IF Len(Collections) = 0 THEN 0 ELSE 1]
    /\ UNCHANGED <<present, flagged, scheduled, logVars, pending_callables,
                   poolVars>>

\* Mistake: an entry that exists is taken for one that is done.
MetIfKnown(c, e) ==
    \/ e.on.owner \notin present
    \/ e.on.id \in DOMAIN transactions[e.on.owner][c]

\* The dependency entry e of collection c is met: its owner is gone, has no
\* such entry, or is done with it.
Met(c, e) ==
    \/ e.on.owner \notin present
    \/ e.on.id \notin DOMAIN transactions[e.on.owner][c]
    \/ transactions[e.on.owner][c][e.on.id].done

\* Mistake: the scan goes on behind the dependencies that are not met.
TakenBehindDependencies(t, c, end) ==
    {id \in first_id[t][c] .. current_id[t][c] - 1 :
        /\ transactions[t][c][id].kind # "dependency"
        /\ ~transactions[t][c][id].done}

\* The ids from first_id up to end that get_pending_operations collects.
Taken(t, c, end) ==
    {id \in first_id[t][c] .. end - 1 :
        /\ transactions[t][c][id].kind # "dependency"
        /\ ~transactions[t][c][id].done}

\* Mistake: callables and write operations share a batch.
BreaksNotOnKind(t, c, id) ==
    LET e == transactions[t][c][id] IN
    e.pending \/ (~e.done /\ e.kind = "dependency" /\ ~Met(c, e))

\* The scan of get_pending_operations breaks at id: the entry is pending, an
\* unmet dependency, or of the other kind than those collected before it.
Breaks(t, c, id) ==
    LET e == transactions[t][c][id] IN
    \/ e.pending
    \/ /\ ~e.done
       /\ \/ e.kind = "dependency" /\ ~Met(c, e)
          \/ /\ e.kind # "dependency"
             /\ \E j \in Taken(t, c, id) : transactions[t][c][j].kind # e.kind

\* The scan ends at end: the first id where it breaks, or current_id.
ScanEnds(t, c, end) ==
    /\ end < current_id[t][c] => Breaks(t, c, end)
    /\ \A id \in first_id[t][c] .. end - 1 : ~Breaks(t, c, id)

Callables(t, c, ids) == {id \in ids : transactions[t][c][id].kind = "callable"}

\* Mistake: one past the last collection.
NextCursorPast(t) == cursor[t] + 1

NextCursor(t) == IF cursor[t] < Len(Collections) THEN cursor[t] + 1 ELSE 0

\* The collection at the cursor has nothing to send: continue.
SkipCollection(t) ==
    /\ cursor[t] > 0
    /\ LET c == Collections[cursor[t]] IN first_id[t][c] = current_id[t][c]
    /\ cursor' = [cursor EXCEPT ![t] = NextCursor(t)]
    /\ UNCHANGED <<lifeVars, logVars, timeVars, pending_callables, poolVars>>

\* Mistake: first_id jumps over what the scan did not reach.
NothingPendingJump(t) ==
    /\ cursor[t] > 0
    /\ LET c == Collections[cursor[t]] IN
       \E end \in first_id[t][c] .. current_id[t][c] :
        /\ first_id[t][c] # current_id[t][c]
        /\ ScanEnds(t, c, end)
        /\ Taken(t, c, end) = {}
        /\ first_id' = [first_id EXCEPT ![t][c] = current_id[t][c]]
    /\ cursor' = [cursor EXCEPT ![t] = 0]
    /\ UNCHANGED <<lifeVars, epoch, current_id, transactions, timeVars,
                   pending_callables, poolVars>>

\* get_pending_operations collects nothing, but has gone past the dependencies
\* that are met: the break leaves the later collections for another update().
NothingPending(t) ==
    /\ cursor[t] > 0
    /\ LET c == Collections[cursor[t]] IN
       \E end \in first_id[t][c] .. current_id[t][c] :
        /\ first_id[t][c] # current_id[t][c]
        /\ ScanEnds(t, c, end)
        /\ Taken(t, c, end) = {}
        /\ first_id' = [first_id EXCEPT ![t][c] = end]
    /\ cursor' = [cursor EXCEPT ![t] = 0]
    /\ UNCHANGED <<lifeVars, epoch, current_id, transactions, timeVars,
                   pending_callables, poolVars>>

\* The logs after the entries ids of one got pending = true.
FlagPending(t, c, ids) ==
    [transactions EXCEPT ![t][c] =
        [id \in DOMAIN transactions[t][c] |->
            IF id \in ids
            THEN [transactions[t][c][id] EXCEPT !.pending = TRUE]
            ELSE transactions[t][c][id]]]

\* get_pending_operations collects a batch and flags it as pending; database::
\* execute() pushes it to the pool, or returns at once without a connection.
SendBatch(t) ==
    /\ cursor[t] > 0
    /\ LET c == Collections[cursor[t]] IN
       \E end \in first_id[t][c] .. current_id[t][c] :
        LET ids == Taken(t, c, end) IN
        /\ ScanEnds(t, c, end)
        /\ ids # {}
        /\ first_id' = [first_id EXCEPT ![t][c] = end]
        /\ transactions' = FlagPending(t, c, ids)
        /\ pending_callables' = [pending_callables EXCEPT ![t] =
             (@ - Cardinality(Callables(t, c, ids))) % CounterModulus]
        /\ queue' = IF Connected
                    THEN Append(queue,
                           [owner |-> t, epoch |-> epoch[t], collection |-> c,
                            callable |-> Callables(t, c, ids) # {},
                            ids |-> ids, left |-> ids, undone |-> ids])
                    ELSE queue
    /\ cursor' = [cursor EXCEPT ![t] = NextCursor(t)]
    /\ UNCHANGED <<lifeVars, epoch, current_id, timeVars, running, applied>>

----------------------------------------------------------------------------
(***************************************************************************)
(* The database pool. A thread blocks in the driver while it executes a    *)
(* batch, so at most DbThreads batches run. That they start in the order   *)
(* they were pushed is assumed of the external fiber pool.                 *)
(***************************************************************************)

StartBatch ==
    /\ queue # <<>>
    /\ Cardinality(running) < DbThreads
    /\ running' = running \cup {Head(queue)}
    /\ queue' = Tail(queue)
    /\ UNCHANGED <<lifeVars, logVars, timeVars, pending_callables, cursor,
                   applied>>

\* The entries the batch points to are those it was made from. A batch that
\* outlives them reads freed memory; what the process does then is not modelled,
\* other than for the last store.
Alive(b) == b.epoch = epoch[b.owner]

Op(b, id) == [owner |-> b.owner, epoch |-> b.epoch,
              collection |-> b.collection, id |-> id]

\* Mistake: the operations of a batch in any order.
FirstAny(ids, id) == id \in ids

First(ids, id) == id \in ids /\ \A j \in ids : id <= j

\* The server carries out the next operation of an ordered bulk.
BulkApply(b) ==
    /\ Alive(b)
    /\ ~b.callable
    /\ \E id \in b.left :
        /\ First(b.left, id)
        /\ applied' = applied \cup {Op(b, id)}
        /\ running' = (running \ {b}) \cup {[b EXCEPT !.left = @ \ {id}]}
    /\ UNCHANGED <<lifeVars, logVars, timeVars, pending_callables, cursor, queue>>

\* The callable of the next entry runs.
RunCallable(b) ==
    /\ Alive(b)
    /\ b.callable
    /\ \E id \in b.left :
        /\ First(b.ids, id)
        /\ applied' = applied \cup {Op(b, id)}
        /\ running' = (running \ {b}) \cup {[b EXCEPT !.left = @ \ {id}]}
    /\ UNCHANGED <<lifeVars, logVars, timeVars, pending_callables, cursor, queue>>

\* Has what there is to do for the entry with an id been done? A bulk has
\* returned: with an error, which is ignored, if something is left.
Returned(b, id) ==
    IF b.callable THEN id \notin b.left ELSE b.left = {} \/ BulkMayFail

\* done = true, of the next entry.
FlagDone(b) ==
    /\ Alive(b)
    /\ \E id \in b.undone :
        /\ First(b.ids, id)
        /\ Returned(b, id)
        /\ transactions' =
              [transactions EXCEPT ![b.owner][b.collection][id].done = TRUE]
        /\ running' = (running \ {b}) \cup
              {[b EXCEPT !.undone = @ \ {id},
                         !.left = IF b.callable THEN @ ELSE {}]}
    /\ UNCHANGED <<lifeVars, epoch, first_id, current_id, timeVars,
                   pending_callables, cursor, queue, applied>>

\* pending = false, of the entry just flagged as done; the last one ends the
\* batch. update() may have given the owner up in between, and the entry be
\* freed. What the store hits then is undefined: here no entry, or one that has
\* its memory now.
ClearPending(b) ==
    /\ \E id \in b.ids \ b.undone :
        /\ First(b.ids, id)
        /\ \/ ~Alive(b) /\ UNCHANGED transactions
           \/ \E t \in Owner, c \in Collection : \E i \in DOMAIN transactions[t][c] :
                /\ Alive(b) => t = b.owner /\ c = b.collection /\ i = id
                /\ transactions' = [transactions EXCEPT ![t][c][i].pending = FALSE]
        /\ running' = (running \ {b}) \cup
              (IF b.ids = {id} THEN {} ELSE {[b EXCEPT !.ids = @ \ {id}]})
    /\ UNCHANGED <<lifeVars, epoch, first_id, current_id, timeVars,
                   pending_callables, cursor, queue, applied>>

----------------------------------------------------------------------------
User(t) ==
    \/ \E c \in Collection :
        \/ PushOperation(t, c)
        \/ PushCallable(t, c)
        \/ \E o \in Owner, id \in 0 .. MaxSlots - 1 : PushDependency(t, c, o, id)
    \/ FlagDeletion(t)
    \/ UnflagDeletion(t)
    \/ Remove(t)
    \/ Reinit(t)

UpdateHead(t) ==
    \/ CheckCollection(t)
    \/ UpdateSchedules(t)
    \/ \E d \in Diffs : UpdateIdle(t, d) \/ UpdateStart(t, d)

UpdateBody(t) ==
    \/ SkipCollection(t)
    \/ NothingPending(t)
    \/ SendBatch(t)

Execute(b) ==
    \/ BulkApply(b)
    \/ RunCallable(b)
    \/ FlagDone(b)
    \/ ClearPending(b)

Next ==
    \/ \E t \in Owner : User(t) \/ UpdateHead(t) \/ UpdateBody(t)
    \/ StartBatch
    \/ \E b \in running : Execute(b)

\* Every owner is updated again and again, and an update() that has begun goes
\* on; the pool's threads run. Nothing obliges user code to do anything.
Fairness ==
    /\ \A t \in Owner : SF_vars(UpdateHead(t)) /\ WF_vars(UpdateBody(t))
    /\ WF_vars(StartBatch)
    /\ WF_vars(\E b \in running : Execute(b))

Spec == Init /\ [][Next]_vars

FairSpec == Spec /\ Fairness

----------------------------------------------------------------------------
(***************************************************************************)
(* Properties.                                                             *)
(***************************************************************************)

InFlight == {queue[k] : k \in 1 .. Len(queue)} \cup running

SameLog(a, b) ==
    a.owner = b.owner /\ a.epoch = b.epoch /\ a.collection = b.collection

\* The operation with an id in the present log of an owner.
Current(t, c, id) ==
    [owner |-> t, epoch |-> epoch[t], collection |-> c, id |-> id]

\* first_id separates what was sent from what was not: no entry from first_id
\* on is pending or done. So the branch of get_pending_operations marked "Log
\* why should this case happen at all" and the one before it are never taken.
Frontier ==
    \A t \in Owner, c \in Collection :
        /\ first_id[t][c] <= current_id[t][c]
        /\ \A id \in first_id[t][c] .. current_id[t][c] - 1 :
              ~transactions[t][c][id].pending /\ ~transactions[t][c][id].done

\* No operation is sent twice: the batches in flight hold disjoint parts of a
\* log below first_id, of one kind each, and the entries a batch has still to
\* flag are not done.
SubmittedOnce ==
    /\ \A b \in InFlight : Alive(b) =>
        \A id \in b.ids :
            LET e == transactions[b.owner][b.collection][id] IN
            /\ id < first_id[b.owner][b.collection]
            /\ e.kind = IF b.callable THEN "callable" ELSE "write"
            /\ id \in b.undone => ~e.done
    /\ \A a, b \in InFlight : a # b /\ SameLog(a, b) => a.ids \cap b.ids = {}
    /\ \A j, k \in 1 .. Len(queue) : queue[j] = queue[k] => j = k
    /\ \A k \in 1 .. Len(queue) : queue[k] \notin running

\* The entry with an id needs no batch, or one in flight has still to flag it.
Accounted(t, c, id) ==
    \/ transactions[t][c][id].kind = "dependency"
    \/ transactions[t][c][id].done
    \/ \E b \in InFlight :
          /\ SameLog(b, Current(t, c, id))
          /\ id \in b.undone

\* No operation is forgotten: every entry below first_id that is not a
\* dependency is done, or a batch in flight has still to flag it.
NoneForgotten ==
    Connected =>
    \A t \in Owner, c \in Collection : \A id \in 0 .. first_id[t][c] - 1 :
        Accounted(t, c, id)

\* _pending_callables counts the callables pushed and not yet sent, in all
\* collections, modulo its width.
PendingCallablesExact ==
    \A t \in Owner :
        pending_callables[t] =
            Cardinality({p \in Collection \X (0 .. MaxSlots - 1) :
                /\ p[2] \in first_id[t][p[1]] .. current_id[t][p[1]] - 1
                /\ transactions[t][p[1]][p[2]].kind = "callable"})
            % CounterModulus

\* The operations of the present logs, dependencies aside.
Logged ==
    UNION {{Current(t, c, id) : id \in
              {k \in 0 .. current_id[t][c] - 1 :
                  transactions[t][c][k].kind # "dependency"}} :
           t \in Owner, c \in Collection}

SentOps == {o \in Logged : o.id < first_id[o.owner][o.collection]}

DoneOps == {o \in Logged : transactions[o.owner][o.collection][o.id].done}

Abstract == INSTANCE OperationLog WITH
    pushed <- Logged, sent <- SentOps, done <- DoneOps

\* With one database thread the transactions keep what OperationLog promises:
\* whatever batches update() cuts a log into, its operations are executed in the
\* order they were pushed and once each, entries are flagged as done after they
\* were executed, and a log is cleared only when all of it is done.
ImplementsLog == Abstract!Spec

\* What is pushed behind a dependency is sent only after the operation it
\* depends on has been carried out, also when the owner of that operation was
\* deleted or its object reused meanwhile.
DependencyRespected ==
    \A t \in Owner, c \in Collection :
        \A i \in 0 .. first_id[t][c] - 1 :
            transactions[t][c][i].kind = "dependency" =>
                transactions[t][c][i].on \in applied

\* "We will only delete if all transactions are done": update() reports an
\* owner as deletable only if every operation in its logs is done, although it
\* looks at the last one of each log only, and at one log after the other.
DeletedWhenDone ==
    \A t \in Owner : scheduled[t] =>
        \A c \in Collection, id \in 0 .. MaxSlots - 1 :
            id < current_id[t][c] =>
                \/ transactions[t][c][id].kind = "dependency"
                \/ transactions[t][c][id].done

\* What a batch that outlives its entries has still to do is the last store, of
\* pending = false to its last entry: all it points to was executed and flagged.
OnlyLastStoreDangles ==
    \A b \in InFlight : ~Alive(b) =>
        b.left = {} /\ b.undone = {} /\ \A i, j \in b.ids : i = j

\* Every operation pushed is sent and flagged as done in the end, whatever the
\* owners' operations wait for, as long as its owner is there.
OperationsComplete ==
    \A t \in Owner, c \in Collection, id \in 0 .. MaxSlots - 1 :
        /\ id < current_id[t][c]
        /\ transactions[t][c][id].kind # "dependency"
        ~> id < current_id[t][c] /\ transactions[t][c][id].done

\* An owner flagged for deletion is deleted, unless it is unflagged.
DeletionCompletes ==
    \A t \in Deletable : flagged[t] ~> (scheduled[t] \/ ~flagged[t])

\* A log of t ends with a dependency.
EndsWithDependency(t) ==
    \E c \in Collection :
        /\ current_id[t][c] > 0
        /\ transactions[t][c][current_id[t][c] - 1].kind = "dependency"

\* An owner flagged for deletion is deleted, unless it is unflagged or one of its
\* logs ends with a dependency: whatever its operations wait for is done in the
\* end, although other owners wait for them in turn.
DeletionCompletesBehindOperations ==
    \A t \in Deletable :
        flagged[t] ~> (scheduled[t] \/ ~flagged[t] \/ EndsWithDependency(t))

============================================================================
