------------------------------ MODULE Database ------------------------------
(***************************************************************************)
(* database: ensure_creation inserts a document under an id nobody chose,  *)
(* and tells the caller which. The work is pushed to the database's fiber  *)
(* pool, whose threads block in the driver. An id is a block of a cipher's *)
(* stream, so it can be any; when the insert fails, for whatever reason,   *)
(* the thread draws another and tries again.                               *)
(*                                                                         *)
(* The server's collection, the network between and the driver's answers   *)
(* are part of the model: an id can be taken, the server can refuse the    *)
(* document, and the connection can break before the insert or before its  *)
(* answer. The operations the transactions execute are in Transaction.     *)
(***************************************************************************)
EXTENDS Integers, Sequences, FiniteSets

CONSTANTS
    Request,      \* the calls of ensure_creation, one document each
    ByReference,  \* those that pass a bson_t&, which is copied
    Refused,      \* those whose document the server does not accept
    Id,           \* the _id values
    Threads,      \* threads of the database's fiber pool
    Older,        \* those of documents the collection held before
    MaxOutages    \* bound on how often the connection breaks

ASSUME ConstantsAssumption ==
    /\ ByReference \subseteq Request
    /\ Refused \subseteq Request
    /\ Threads \in Nat \ {0}
    /\ Older \subseteq Id
    /\ MaxOutages \in Nat
    /\ Request \cap {"free", "older"} = {}
    /\ "none" \notin Id

VARIABLES
    connected,  \* _is_connected, as init() found it
    queue,      \* requests pushed to the pool, not yet started
    stage,      \* what becomes of each request
    id,         \* the id each request drew last
    copied,     \* requests whose document was copied, and the original destroyed
    destroyed,  \* how often the document a request inserts was destroyed
    told,       \* the ids each request's callback was called with
    server,     \* the collection: the request, "older" or "free" for each id
    reachable,  \* does the connection work?
    outages,    \* how often it broke
    unanswered  \* how often a request's insert succeeded without its knowing

callVars    == <<connected, queue>>
requestVars == <<stage, id, copied, destroyed, told>>
serverVars  == <<server, reachable, outages, unanswered>>
vars == <<callVars, requestVars, serverVars>>

NoId == "none"

\* A request is with a pool's thread.
Active == {"draw", "insert", "answer", "created"}

\* One type of every variable.
TypeOK ==
    /\ connected \in BOOLEAN
    /\ queue \in Seq(Request)
    /\ stage \in [Request -> {"none", "dropped", "queued", "done"} \cup Active]
    /\ id \in [Request -> Id \cup {NoId}]
    /\ copied \subseteq ByReference
    /\ destroyed \in [Request -> Nat]
    /\ told \in [Request -> SUBSET Id]
    /\ server \in [Id -> Request \cup {"free", "older"}]
    /\ reachable \in BOOLEAN
    /\ outages \in 0 .. MaxOutages
    /\ unanswered \in [Request -> Nat]

Free == {i \in Id : server[i] = "free"}

\* init() has run: the ping reached the server or not. A build without the check
\* of execute() behaves as one that was connected and whose server went away.
Init ==
    /\ connected \in BOOLEAN
    /\ queue = <<>>
    /\ stage = [r \in Request |-> "none"]
    /\ id = [r \in Request |-> NoId]
    /\ copied = {}
    /\ destroyed = [r \in Request |-> 0]
    /\ told = [r \in Request |-> {}]
    /\ server = [i \in Id |-> IF i \in Older THEN "older" ELSE "free"]
    /\ reachable = connected
    /\ outages = 0
    /\ unanswered = [r \in Request |-> 0]

----------------------------------------------------------------------------
(***************************************************************************)
(* The caller.                                                             *)
(***************************************************************************)

\* ensure_creation, and the execute() with an ensure_creation_unsafe in it:
\* pushed to the pool, or given up where execute() finds no connection. A
\* document passed by reference is copied and destroyed in both cases.
EnsureCreation(r) ==
    /\ stage[r] = "none"
    /\ stage' = [stage EXCEPT ![r] = IF connected THEN "queued" ELSE "dropped"]
    /\ queue' = IF connected THEN Append(queue, r) ELSE queue
    /\ copied' = copied \cup ({r} \cap ByReference)
    /\ UNCHANGED <<connected, id, destroyed, told, serverVars>>

----------------------------------------------------------------------------
(***************************************************************************)
(* A thread of the pool: ensure_creation_impl.                             *)
(***************************************************************************)

Start ==
    /\ queue # <<>>
    /\ Cardinality({r \in Request : stage[r] \in Active}) < Threads
    /\ stage' = [stage EXCEPT ![Head(queue)] = "draw"]
    /\ queue' = Tail(queue)
    /\ UNCHANGED <<connected, id, copied, destroyed, told, serverVars>>

\* get_potentially_unique_id.
Draw(r, i) ==
    /\ stage[r] = "draw"
    /\ id' = [id EXCEPT ![r] = i]
    /\ stage' = [stage EXCEPT ![r] = "insert"]
    /\ UNCHANGED <<callVars, copied, destroyed, told, serverVars>>

\* Mistake: a failed round destroys the caller's document too.
InsertFailsDestroys(r) ==
    /\ stage[r] = "insert"
    /\ ~reachable \/ r \in Refused \/ id[r] \notin Free
    /\ destroyed' = [destroyed EXCEPT ![r] = @ + 1]
    /\ stage' = [stage EXCEPT ![r] = "draw"]
    /\ UNCHANGED <<callVars, id, copied, told, serverVars>>

\* Mistake: the first error ends the request.
InsertFailsGivesUp(r) ==
    /\ stage[r] = "insert"
    /\ ~reachable \/ r \in Refused \/ id[r] \notin Free
    /\ stage' = [stage EXCEPT ![r] = "dropped"]
    /\ UNCHANGED <<callVars, id, copied, destroyed, told, serverVars>>

\* The driver reports an error before the server took the document: there is no
\* connection, the server refuses the document, or the id is taken.
InsertFails(r) ==
    /\ stage[r] = "insert"
    /\ ~reachable \/ r \in Refused \/ id[r] \notin Free
    /\ stage' = [stage EXCEPT ![r] = "draw"]
    /\ UNCHANGED <<callVars, id, copied, destroyed, told, serverVars>>

\* Mistake: an id that is taken is written over.
InsertOver(r) ==
    /\ stage[r] = "insert"
    /\ reachable
    /\ r \notin Refused
    /\ server' = [server EXCEPT ![id[r]] = r]
    /\ stage' = [stage EXCEPT ![r] = "answer"]
    /\ UNCHANGED <<callVars, id, copied, destroyed, told, reachable, outages,
                   unanswered>>

\* The server takes the document; the driver waits for the answer.
Insert(r) ==
    /\ stage[r] = "insert"
    /\ reachable
    /\ r \notin Refused
    /\ id[r] \in Free
    /\ server' = [server EXCEPT ![id[r]] = r]
    /\ stage' = [stage EXCEPT ![r] = "answer"]
    /\ UNCHANGED <<callVars, id, copied, destroyed, told, reachable, outages,
                   unanswered>>

\* Mistake: no answer is taken for success.
AnswerLostCreated(r) ==
    /\ stage[r] = "answer"
    /\ ~reachable
    /\ stage' = [stage EXCEPT ![r] = "created"]
    /\ destroyed' = [destroyed EXCEPT ![r] = @ + 1]
    /\ unanswered' = [unanswered EXCEPT ![r] = @ + 1]
    /\ UNCHANGED <<callVars, id, copied, told, server, reachable, outages>>

\* The answer does not come: an error like any other.
AnswerLost(r) ==
    /\ stage[r] = "answer"
    /\ ~reachable
    /\ stage' = [stage EXCEPT ![r] = "draw"]
    /\ unanswered' = [unanswered EXCEPT ![r] = @ + 1]
    /\ UNCHANGED <<callVars, id, copied, destroyed, told, server, reachable,
                   outages>>

\* The insert succeeded: bson_destroy(document), return id.
Created(r) ==
    /\ stage[r] = "answer"
    /\ reachable
    /\ destroyed' = [destroyed EXCEPT ![r] = @ + 1]
    /\ stage' = [stage EXCEPT ![r] = "created"]
    /\ UNCHANGED <<callVars, id, copied, told, serverVars>>

\* The callback gets the id; ensure_creation_unsafe returns it instead.
Callback(r) ==
    /\ stage[r] = "created"
    /\ told' = [told EXCEPT ![r] = @ \cup {id[r]}]
    /\ stage' = [stage EXCEPT ![r] = "done"]
    /\ UNCHANGED <<callVars, id, copied, destroyed, serverVars>>

----------------------------------------------------------------------------
(***************************************************************************)
(* The connection.                                                         *)
(***************************************************************************)

Break ==
    /\ reachable
    /\ outages < MaxOutages
    /\ reachable' = FALSE
    /\ outages' = outages + 1
    /\ UNCHANGED <<callVars, requestVars, server, unanswered>>

Mend ==
    /\ connected
    /\ ~reachable
    /\ reachable' = TRUE
    /\ UNCHANGED <<callVars, requestVars, server, outages, unanswered>>

----------------------------------------------------------------------------
Execute(r) ==
    \/ InsertFails(r)
    \/ Insert(r)
    \/ AnswerLost(r)
    \/ Created(r)
    \/ Callback(r)

Next ==
    \/ Start
    \/ \E r \in Request :
        \/ EnsureCreation(r)
        \/ \E i \in Id : Draw(r, i)
        \/ Execute(r)
    \/ Break
    \/ Mend

\* The pool's threads run, and the driver returns. Ids are pseudo-random: a
\* thread that draws again and again draws an id that is free in the end.
\* Nothing obliges a connection to hold, or to come back.
Fairness ==
    /\ WF_vars(Start)
    /\ \A r \in Request :
        /\ WF_vars(Execute(r))
        /\ WF_vars(\E i \in Id : Draw(r, i))
        /\ SF_vars(\E i \in Free : Draw(r, i))

Spec == Init /\ [][Next]_vars

FairSpec == Spec /\ Fairness

----------------------------------------------------------------------------
(***************************************************************************)
(* Properties.                                                             *)
(***************************************************************************)

\* The id a callback is called with is that of the document of its request, and
\* stays so, whatever ids other requests draw and however often they try.
ToldIdNamesDocument ==
    \A r \in Request : \A i \in told[r] : server[i] = r

\* How many documents a request leaves behind: one if its insert was answered or
\* still can be, and one more for every answer that was lost.
DocumentsCounted ==
    \A r \in Request :
        Cardinality({i \in Id : server[i] = r}) =
            unanswered[r]
            + (IF stage[r] \in {"answer", "created", "done"} THEN 1 ELSE 0)

\* The document that is inserted is there as long as a round may use it, however
\* many fail, and destroyed once in the end; one that was passed by reference is
\* a copy by then.
DocumentOwned ==
    \A r \in Request :
        /\ destroyed[r] = IF stage[r] \in {"created", "done"} THEN 1 ELSE 0
        /\ r \in copied <=> r \in ByReference /\ stage[r] # "none"

\* Every request is answered in the end when the connection holds from some time
\* on, although requests the server refuses keep their threads for ever, as long
\* as they leave one thread to the others.
RequestsComplete ==
    (Cardinality(Refused) < Threads /\ <>[]reachable) =>
        \A r \in Request \ Refused : stage[r] = "queued" ~> stage[r] = "done"

=============================================================================
