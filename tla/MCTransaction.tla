--------------------------- MODULE MCTransaction ---------------------------
(***************************************************************************)
(* Instances of Transaction for TLC.                                       *)
(***************************************************************************)
EXTENDS Transaction

CONSTANTS t1, t2, c1, c2

OneCollection == <<c1>>
TwoCollections == <<c1, c2>>

\* Every kind of entry, in every log.
AllPushed == Owner \X Collection \X Kinds

\* Operations, but no dependencies.
OperationsPushed == Owner \X Collection \X {"write", "callable"}

\* No callables.
WritesPushed == Owner \X Collection \X {"write", "dependency"}

\* A log with all kinds of entries, a second one of the same owner with writes,
\* and one of another owner with callables; the first and the last wait for
\* one another.
MixedPushed ==
    {<<t1, c1, kind>> : kind \in Kinds}
        \cup {<<t1, c2, "write">>}
        \cup {<<t2, c1, kind>> : kind \in {"callable", "dependency"}}

============================================================================
