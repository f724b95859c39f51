----------------------------- MODULE Reflection -----------------------------
(***************************************************************************)
(* bson_reflection_struct: loading a document into the members of a struct.*)
(* bson_iter_visit_all calls the visitor for one element of the document   *)
(* after the other; a numeric element is stored in the member of its name, *)
(* whatever numeric type that has; a sub-document is visited with the      *)
(* visitor of the first member that is itself reflected, whatever name it  *)
(* has; an element of a type that the visitor has no callback for is passed*)
(* over.                                                                   *)
(*                                                                         *)
(* Which element comes next is chosen when it is visited, so every document*)
(* is considered, with strings that are valid and no broken bytes. Structs *)
(* are nested once. Names are compared by a hash, which is taken to be     *)
(* different for different names. asserts tells a debug build, where an    *)
(* element that does not fit its member aborts the process, from one with  *)
(* NDEBUG, where it is passed over.                                        *)
(***************************************************************************)
EXTENDS Integers, Sequences

CONSTANTS
    Structs,           \* the structs: pairs of an outer and an inner one
    Name,              \* names of elements and members
    Numbers,           \* values of numeric elements, in halves
    Int32Limit,        \* an int32 is less than this: 2^31 in the code
    MaxElements        \* bound on the number of elements visited

Numeric == {"bool", "int32", "int64", "double"}

\* A member: its name, and its type. "struct" is the inner struct.
Members(types) == UNION {[1 .. n -> [name : Name, type : types]] : n \in 0 .. 3}

ASSUME ConstantsAssumption ==
    /\ \A s \in Structs :
        /\ s.outer \in Members(Numeric \cup {"string", "struct"})
        /\ s.inner \in Members(Numeric \cup {"string"})
        /\ \A m \in {s.outer, s.inner} : \A j, k \in DOMAIN m :
              m[j].name = m[k].name => j = k
    /\ Numbers \subseteq Nat
    /\ Int32Limit \in Nat \ {0}
    /\ MaxElements \in Nat

VARIABLES
    struct,   \* the struct and the one nested in it
    asserts,  \* are asserts compiled in?
    path,     \* the names of the sub-documents being visited: none or one
    stored,   \* the members: their values, "outer" and "inner", by index
    aborted,  \* an assert failed
    seen      \* the elements visited so far, sub-documents aside

vars == <<struct, asserts, path, stored, aborted, seen>>

\* The levels: the struct itself, and the one nested in it.
Level == {"outer", "inner"}

Here == IF path = <<>> THEN "outer" ELSE "inner"

\* What a member holds at first, and the characters of a string, of which there
\* is one: neither is an even number, which an int32 could be.
Initial == -1
Text    == -3

\* What a member of a type can hold; numbers are in halves.
ContentsOf(type) ==
    CASE type = "bool" -> {0, 2}
      [] type = "int32" -> {2 * n : n \in -Int32Limit .. Int32Limit - 1}
      [] type = "int64" -> {(v \div 2) * 2 : v \in Numbers}
      [] type = "double" -> Numbers
      [] type = "string" -> {Text}
      [] type = "struct" -> {}

\* One type of every variable.
TypeOK ==
    /\ struct \in Structs
    /\ path \in {<<>>} \cup {<<n>> : n \in Name}
    /\ \A l \in Level : \A k \in DOMAIN struct[l] :
          stored[l][k] \in {Initial} \cup ContentsOf(struct[l][k].type)
    /\ asserts \in BOOLEAN
    /\ aborted \in BOOLEAN
    /\ Len(seen) <= MaxElements

Init ==
    /\ struct \in Structs
    /\ asserts \in BOOLEAN
    /\ path = <<>>
    /\ stored = [l \in Level |-> [k \in DOMAIN struct[l] |-> Initial]]
    /\ aborted = FALSE
    /\ seen = <<>>

----------------------------------------------------------------------------
Visiting == ~aborted /\ Len(seen) < MaxElements

\* The values a numeric element can have: only a double has halves.
ValuesOf(type) ==
    CASE type = "bool" -> Numbers \cap {0, 2}
      [] type = "int32" -> {v \in Numbers : v % 2 = 0 /\ v < 2 * Int32Limit}
      [] type = "int64" -> {v \in Numbers : v % 2 = 0}
      [] type = "double" -> Numbers

\* Two's complement of a whole number.
Wrapped(n) == ((n + Int32Limit) % (2 * Int32Limit)) - Int32Limit

\* Mistake: the bytes of the element are copied into the member.
AssignedAsIs(type, from, v) == {v}

\* The assignment of a numeric value to a member, by the member's type. What a
\* double too large for an int32 becomes is undefined.
Assigned(type, from, v) ==
    CASE type = "bool" -> {IF v = 0 THEN 0 ELSE 2}
      [] type = "int32" ->
            IF from = "double" /\ v >= 2 * Int32Limit
            THEN ContentsOf("int32")
            ELSE {2 * Wrapped(v \div 2)}
      [] type = "int64" -> {(v \div 2) * 2}
      [] type = "double" -> {v}

\* The members of the struct being visited with a name.
Named(name) == {k \in DOMAIN struct[Here] : struct[Here][k].name = name}

See(name, type, v) ==
    seen' = Append(seen, [path |-> path, name |-> name, type |-> type, value |-> v])

\* Mistake: only a member of the element's own type takes it.
CheckAndStoreSame(name, type, v) ==
    /\ Visiting
    /\ See(name, type, v)
    /\ \/ \E k \in Named(name) :
            /\ struct[Here][k].type = type
            /\ stored' = [stored EXCEPT ![Here][k] = v]
            /\ UNCHANGED aborted
       \/ /\ \A k \in Named(name) : struct[Here][k].type # type
          /\ aborted' = (asserts /\ Named(name) # {})
          /\ UNCHANGED stored
    /\ UNCHANGED <<struct, asserts, path>>

\* check_and_store: a numeric element is stored in the member of its name, if
\* that is numeric too; an assert fails if it is not.
CheckAndStore(name, type, v) ==
    /\ Visiting
    /\ See(name, type, v)
    /\ \/ \E k \in Named(name) :
            /\ struct[Here][k].type \in Numeric
            /\ \E x \in Assigned(struct[Here][k].type, type, v) :
                  stored' = [stored EXCEPT ![Here][k] = x]
            /\ UNCHANGED aborted
       \/ /\ \A k \in Named(name) : struct[Here][k].type \notin Numeric
          /\ aborted' = (asserts /\ Named(name) # {})
          /\ UNCHANGED stored
    /\ UNCHANGED <<struct, asserts, path>>

\* check_and_store_string.
CheckAndStoreString(name) ==
    /\ Visiting
    /\ See(name, "utf8", Text)
    /\ stored' = [stored EXCEPT ![Here] =
         [k \in DOMAIN struct[Here] |->
            IF k \in Named(name) /\ struct[Here][k].type = "string"
            THEN Text ELSE stored[Here][k]]]
    /\ aborted' = (asserts /\ \E k \in Named(name) : struct[Here][k].type # "string")
    /\ UNCHANGED <<struct, asserts, path>>

\* The visitor has no callback for the type of the element: null, an array, a
\* date, an identifier and so on. Whatever member has its name is left alone.
PassOver(name) ==
    /\ Visiting
    /\ See(name, "other", 0)
    /\ UNCHANGED <<struct, asserts, path, stored, aborted>>

\* Is k the first reflected member?
FirstReflected(k) ==
    /\ struct[Here][k].type = "struct"
    /\ \A j \in 1 .. k - 1 : struct[Here][j].type # "struct"

\* The members that check_and_recurse asks for the name of a sub-document: those
\* before the first reflected one.
Asked == {k \in DOMAIN struct[Here] :
            \A j \in 1 .. k : struct[Here][j].type # "struct"}

\* check_and_recurse: the first reflected member takes the sub-document, whatever
\* its name is, unless a member before it has the name and the assert fails.
CheckAndRecurse(name) ==
    /\ Visiting
    /\ \E k \in DOMAIN struct[Here] : FirstReflected(k)
    /\ IF asserts /\ Named(name) \cap Asked # {}
       THEN aborted' = TRUE /\ UNCHANGED path
       ELSE path' = Append(path, name) /\ UNCHANGED aborted
    /\ UNCHANGED <<struct, asserts, stored, seen>>

\* check_and_recurse without a reflected member: the assert fails if a member has
\* the name; otherwise the sub-document is passed over, and nothing changes.
CheckAndPass(name) ==
    /\ Visiting
    /\ \A k \in DOMAIN struct[Here] : ~FirstReflected(k)
    /\ asserts /\ Named(name) # {}
    /\ aborted' = TRUE
    /\ UNCHANGED <<struct, asserts, path, stored, seen>>

\* visit_all returns from a sub-document.
Leave ==
    /\ path # <<>>
    /\ ~aborted
    /\ path' = <<>>
    /\ UNCHANGED <<struct, asserts, stored, aborted, seen>>

Next ==
    \/ \E n \in Name, t \in Numeric : \E v \in ValuesOf(t) : CheckAndStore(n, t, v)
    \/ \E n \in Name : CheckAndStoreString(n)
    \/ \E n \in Name : PassOver(n)
    \/ \E n \in Name : CheckAndRecurse(n)
    \/ \E n \in Name : CheckAndPass(n)
    \/ Leave

Spec == Init /\ [][Next]_vars

----------------------------------------------------------------------------
(***************************************************************************)
(* Properties.                                                             *)
(***************************************************************************)

\* The names of the sub-documents whose elements are for the members of a level:
\* those of the first reflected member, for the inner one.
PathsTo(l) ==
    IF l = "outer" THEN {<<>>}
    ELSE {<<struct.outer[k].name>> : k \in
             {k \in DOMAIN struct.outer :
                 /\ struct.outer[k].type = "struct"
                 /\ \A j \in 1 .. k - 1 : struct.outer[j].type # "struct"}}

\* Is the j-th element for member k of a level?
IsFor(j, l, k) ==
    seen[j].path \in PathsTo(l) /\ seen[j].name = struct[l][k].name

\* Can a member of a type take an element of a type?
Fits(from, type) ==
    \/ from \in Numeric /\ type \in Numeric
    \/ from = "utf8" /\ type = "string"

\* The elements for member k of a level, and those it can take.
For(l, k)     == {j \in DOMAIN seen : IsFor(j, l, k)}
Fitting(l, k) == {j \in For(l, k) : Fits(seen[j].type, struct[l][k].type)}

\* Was no element visited of a sub-document that is not the inner struct's own?
OwnDocuments == \A j \in DOMAIN seen : seen[j].path \in {<<>>} \cup PathsTo("inner")

\* A document is loaded as it is, over any order of its elements: of the elements
\* for a member that it can take, it has the value of the last, if its type can
\* hold that, and without one the value it had before. No element reaches a member
\* of another name or, in a document with no sub-document that is not the inner
\* struct's, one of the other level. An element that the visitor has a callback for
\* and that does not fit its member leaves a debug build no way on.
Loaded ==
    \A l \in Level : \A k \in DOMAIN struct[l] :
        /\ l = "outer" \/ OwnDocuments =>
              /\ Fitting(l, k) = {} => stored[l][k] = Initial
              /\ \A j \in Fitting(l, k) :
                    /\ seen[j].value \in ContentsOf(struct[l][k].type)
                    /\ \A i \in Fitting(l, k) : i <= j
                    => stored[l][k] = seen[j].value
        /\ asserts /\ ~aborted =>
              \A j \in For(l, k) : seen[j].type = "other" \/ j \in Fitting(l, k)

\* "Element not in struct, continue": what is not in the struct is passed over, so
\* a member that no element is for keeps the value it had. The code does so with
\* numbers and strings, but never compares the name of a sub-document with that of
\* the first reflected member, which takes the elements of every sub-document, even
\* those of a second reflected member; the asserts of a debug build only stop the
\* ones that are named like a member before it.
NotInStructPassedOver ==
    asserts => \A l \in Level : \A k \in DOMAIN struct[l] :
        For(l, k) = {} => stored[l][k] = Initial

=============================================================================
