---------------------------- MODULE OperationLog ----------------------------
(***************************************************************************)
(* What the transactions promise when one thread executes the database's   *)
(* work: every log is a queue of operations that are sent, executed and    *)
(* finished in the order they were pushed, each executed at most once, and *)
(* a log goes away only when all of it is finished. Dependencies, batches, *)
(* kinds of operations, ticks and the pool are gone; Transaction implements*)
(* this specification.                                                     *)
(***************************************************************************)
EXTENDS Naturals

CONSTANTS Owner, Collection

Operation == [owner : Owner, epoch : Nat, collection : Collection, id : Nat]

VARIABLES
    pushed,   \* the operations of the present logs
    sent,     \* those that were handed to the database
    done,     \* those that are finished, as far as the owner can see
    applied   \* all that were ever executed

vars == <<pushed, sent, done, applied>>

Init == pushed = {} /\ sent = {} /\ done = {} /\ applied = {}

\* o was pushed before p into the same log.
Before(o, p) ==
    /\ o.owner = p.owner
    /\ o.epoch = p.epoch
    /\ o.collection = p.collection
    /\ o.id < p.id

\* A new operation comes last in its log.
Push(o) ==
    /\ o \notin pushed \cup applied
    /\ \A p \in pushed : ~Before(o, p)
    /\ pushed' = pushed \cup {o}
    /\ UNCHANGED <<sent, done, applied>>

\* Some operations are sent, and none that was pushed before them stays behind.
Send(S) ==
    /\ S # {}
    /\ S \cap sent = {}
    /\ \A o \in pushed : (\E p \in S : Before(o, p)) => o \in sent \cup S
    /\ sent' = sent \cup S
    /\ UNCHANGED <<pushed, done, applied>>

\* Executed once, after all that was pushed before.
Apply(o) ==
    /\ o \notin applied
    /\ \A p \in pushed : Before(p, o) => p \in applied
    /\ applied' = applied \cup {o}
    /\ UNCHANGED <<pushed, sent, done>>

\* The owner sees that executed operations are finished.
Finish(S) ==
    /\ S # {}
    /\ S \subseteq applied
    /\ done' = done \cup S
    /\ UNCHANGED <<pushed, sent, applied>>

\* The logs of an owner go away, all of their operations being finished.
Retire(t) ==
    LET log == {o \in pushed : o.owner = t} IN
    /\ log # {}
    /\ log \subseteq done
    /\ pushed' = pushed \ log
    /\ sent' = sent \ log
    /\ done' = done \ log
    /\ UNCHANGED applied

\* What a step adds is named by the next state, which saves guessing it.
Next ==
    \/ \E o \in pushed' \ pushed : o \in Operation /\ Push(o)
    \/ Send((sent' \ sent) \cap pushed)
    \/ \E o \in sent : Apply(o)
    \/ Finish((done' \ done) \cap sent)
    \/ \E t \in Owner : Retire(t)

Spec == Init /\ [][Next]_vars

=============================================================================
