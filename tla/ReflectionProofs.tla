---------------------------- MODULE ReflectionProofs ----------------------------
(***************************************************************************)
(* Proofs about Reflection, for any structs, any documents of any length   *)
(* and integers of any width.                                              *)
(***************************************************************************)
EXTENDS Reflection, TLAPS

----------------------------------------------------------------------------
(***************************************************************************)
(* Type correctness.                                                       *)
(***************************************************************************)

Path    == {<<>>} \cup {<<n>> : n \in Name}
Element == [path : Path, name : Name, type : Numeric \cup {"utf8", "other"}, value : Int]

\* There is a place for each member, and what was visited are elements.
Shape ==
    /\ DOMAIN stored = Level
    /\ \A l \in Level : DOMAIN stored[l] = DOMAIN struct[l]
    /\ seen \in Seq(Element)

TypeInv == TypeOK /\ Shape

\* What is known of the members of a level: none that is itself reflected in the
\* inner one, and no two of one name.
MembersOf(l) ==
    /\ \A k \in DOMAIN struct[l] :
          /\ k \in Nat \ {0}
          /\ 1 .. k \subseteq DOMAIN struct[l]
          /\ struct[l][k].name \in Name
          /\ struct[l][k].type \in Numeric \cup {"string", "struct"}
          /\ l = "inner" => struct[l][k].type # "struct"
    /\ \A j, k \in DOMAIN struct[l] : struct[l][j].name = struct[l][k].name => j = k

\* The structs are as the constants say.
LEMMA StructType == struct \in Structs => \A l \in Level : MembersOf(l)
<1> SUFFICES ASSUME struct \in Structs PROVE MembersOf("outer") /\ MembersOf("inner")
  BY DEF Level
<1>1. /\ struct.outer \in Members(Numeric \cup {"string", "struct"})
      /\ struct.inner \in Members(Numeric \cup {"string"})
      /\ \A m \in {struct.outer, struct.inner} : \A j, k \in DOMAIN m :
            m[j].name = m[k].name => j = k
  BY ConstantsAssumption
<1>2. "struct" \notin Numeric \cup {"string"}
  BY DEF Numeric
<1>3. PICK n \in 0 .. 3 :
        struct.outer \in [1 .. n -> [name : Name, type : Numeric \cup {"string", "struct"}]]
  BY <1>1 DEF Members
<1>4. PICK m \in 0 .. 3 :
        struct.inner \in [1 .. m -> [name : Name, type : Numeric \cup {"string"}]]
  BY <1>1 DEF Members
<1> QED
  BY <1>1, <1>2, <1>3, <1>4 DEF MembersOf

\* A member of a numeric type gets something it can hold, and the value itself if
\* it can hold that: for every width, and for conversions both ways.
LEMMA AssignedValue ==
    ASSUME NEW type \in Numeric, NEW from \in Numeric, NEW v \in ValuesOf(from),
           NEW x \in Assigned(type, from, v)
    PROVE  /\ x \in ContentsOf(type)
           /\ v \in ContentsOf(type) => x = v
<1>1. v \in Numbers /\ v \in Nat
  BY ConstantsAssumption DEF ValuesOf, Numeric
<1>2. CASE type = "bool"
  BY <1>1, <1>2 DEF Assigned, ContentsOf
<1>3. CASE type = "int32"
  <2> DEFINE L == Int32Limit
  <2>1. L \in Nat \ {0} /\ 2 * L \in Nat \ {0}
    BY ConstantsAssumption
  <2>2. ContentsOf(type) = {2 * n : n \in -L .. L - 1}
    BY <1>3 DEF ContentsOf
  <2>3. CASE from = "double" /\ v >= 2 * L
    <3>1. x \in ContentsOf(type)
      BY <1>3, <2>3 DEF Assigned
    <3>2. v \notin ContentsOf(type)
      BY <1>1, <2>1, <2>2, <2>3
    <3> QED
      BY <3>1, <3>2
  <2>4. CASE ~(from = "double" /\ v >= 2 * L)
    <3>1. x = 2 * Wrapped(v \div 2)
      BY <1>3, <2>4 DEF Assigned
    <3>2. v \div 2 \in Nat
      BY <1>1
    <3> DEFINE a == (v \div 2) + L
    <3>3. a \in Nat /\ a % (2 * L) \in 0 .. 2 * L - 1
      BY <2>1, <3>2
    <3>4. Wrapped(v \div 2) = (a % (2 * L)) - L
      BY DEF Wrapped
    <3>5. Wrapped(v \div 2) \in -L .. L - 1
      BY <2>1, <3>3, <3>4
    <3>6. ASSUME v \in ContentsOf(type)
          PROVE  x = v
      <4>1. PICK n \in -L .. L - 1 : v = 2 * n
        BY <2>2, <3>6
      <4>2. v \div 2 = n /\ n \in 0 .. L - 1
        BY <1>1, <2>1, <4>1
      <4>3. a \in 0 .. 2 * L - 1
        BY <2>1, <4>2
      <4>4. a % (2 * L) = a
        BY <2>1, <4>3
      <4> QED
        BY <2>1, <3>1, <3>4, <4>1, <4>2, <4>4
    <3> QED
      BY <2>2, <3>1, <3>5, <3>6
  <2> QED
    BY <2>3, <2>4
<1>4. CASE type = "int64"
  <2>1. x = (v \div 2) * 2
    BY <1>4 DEF Assigned
  <2>2. ContentsOf(type) = {(u \div 2) * 2 : u \in Numbers}
    BY <1>4 DEF ContentsOf
  <2>3. \A u \in Nat : (((u \div 2) * 2) \div 2) * 2 = (u \div 2) * 2
    OBVIOUS
  <2>4. \A u \in Numbers : u \in Nat
    BY ConstantsAssumption
  <2> QED
    BY <1>1, <2>1, <2>2, <2>3, <2>4
<1>5. CASE type = "double"
  BY <1>1, <1>5 DEF Assigned, ContentsOf
<1> QED
  BY <1>2, <1>3, <1>4, <1>5 DEF Numeric

\* Nothing is stored in the initial state.
LEMMA InitType == Init => TypeInv
<1> SUFFICES ASSUME Init PROVE TypeInv
  OBVIOUS
<1>1. /\ struct \in Structs /\ path = <<>> /\ aborted = FALSE
      /\ seen = <<>> /\ Len(seen) = 0 /\ seen \in Seq(Element)
  BY DEF Init
<1>2. DOMAIN stored = Level
  BY DEF Init
<1>3. ASSUME NEW l \in Level
      PROVE  /\ DOMAIN stored[l] = DOMAIN struct[l]
             /\ \A k \in DOMAIN struct[l] : stored[l][k] = Initial
  <2>1. stored[l] = [k \in DOMAIN struct[l] |-> Initial]
    BY DEF Init
  <2> QED
    BY <2>1
<1>4. Len(seen) <= MaxElements
  BY <1>1, ConstantsAssumption
<1>5. TypeOK
  BY <1>1, <1>3, <1>4 DEF TypeOK, Init
<1> QED
  BY <1>1, <1>2, <1>3, <1>5 DEF TypeInv, Shape

\* Where the visitor is, and what a step of it appends to what was seen.
LEMMA HereType == Here \in Level
BY DEF Here, Level

LEMMA SeeType ==
    ASSUME TypeInv, Visiting, NEW name \in Name,
           NEW type \in Numeric \cup {"utf8", "other"}, NEW v \in Int,
           See(name, type, v)
    PROVE  /\ seen' \in Seq(Element)
           /\ Len(seen') = Len(seen) + 1
           /\ Len(seen') <= MaxElements
           /\ seen'[Len(seen')] = [path |-> path, name |-> name, type |-> type, value |-> v]
           /\ \A j \in 1 .. Len(seen) : seen'[j] = seen[j]
<1> DEFINE e == [path |-> path, name |-> name, type |-> type, value |-> v]
<1>1. e \in Element /\ seen \in Seq(Element)
  BY DEF TypeInv, TypeOK, Shape, Element, Path
<1>2. seen' = Append(seen, e)
  BY DEF See
<1> HIDE DEF e
<1>3. /\ seen' \in Seq(Element)
      /\ Len(seen') = Len(seen) + 1
      /\ seen'[Len(seen')] = e
      /\ \A j \in 1 .. Len(seen) : seen'[j] = seen[j]
  BY <1>1, <1>2
<1>4. Len(seen) \in Nat /\ Len(seen) < MaxElements
  BY <1>1 DEF Visiting
<1>5. Len(seen') <= MaxElements
  BY <1>3, <1>4, ConstantsAssumption
<1> QED
  BY <1>3, <1>5 DEF e

\* What the visit of an element does to the members: each keeps its value, except
\* one of the element's name where the visitor is, if it can take the element.
Stores(name, type, v) ==
    /\ DOMAIN stored' = Level
    /\ \A l \in Level :
        /\ DOMAIN stored'[l] = DOMAIN struct[l]
        /\ \A k \in DOMAIN struct[l] :
              IF l = Here /\ struct[l][k].name = name /\ Fits(type, struct[l][k].type)
              THEN /\ stored'[l][k] \in ContentsOf(struct[l][k].type)
                   /\ v \in ContentsOf(struct[l][k].type) => stored'[l][k] = v
              ELSE stored'[l][k] = stored[l][k]

\* A debug build goes on only if the member of the name can take the element.
Asserts(name, type) ==
    asserts /\ ~aborted' => \A k \in Named(name) : Fits(type, struct[Here][k].type)

\* A numeric element is stored in its member, or in none.
LEMMA StoreStores ==
    ASSUME TypeInv, NEW name \in Name, NEW type \in Numeric, NEW v \in ValuesOf(type),
           CheckAndStore(name, type, v)
    PROVE  /\ v \in Int
           /\ aborted' \in BOOLEAN
           /\ Stores(name, type, v)
           /\ Asserts(name, type)
<1>0. /\ Here \in Level
      /\ MembersOf(Here)
      /\ DOMAIN stored = Level
      /\ \A l \in Level : DOMAIN stored[l] = DOMAIN struct[l]
      /\ aborted = FALSE
      /\ asserts \in BOOLEAN
  BY HereType, StructType DEF TypeInv, TypeOK, Shape, CheckAndStore, Visiting
<1>1. v \in Int /\ type # "utf8"
  BY ConstantsAssumption DEF ValuesOf, Numeric
<1>2. aborted' \in BOOLEAN
  BY <1>0 DEF CheckAndStore
<1>3. ASSUME NEW k \in Named(name), struct[Here][k].type \in Numeric,
             NEW x \in Assigned(struct[Here][k].type, type, v),
             stored' = [stored EXCEPT ![Here][k] = x]
      PROVE  Stores(name, type, v) /\ Asserts(name, type)
  <2>1. k \in DOMAIN struct[Here] /\ struct[Here][k].name = name
    BY <1>3 DEF Named
  <2>2. /\ x \in ContentsOf(struct[Here][k].type)
        /\ v \in ContentsOf(struct[Here][k].type) => x = v
    BY <1>3, AssignedValue
  <2>3. Fits(type, struct[Here][k].type)
    BY <1>1, <1>3 DEF Fits
  <2>4. \A j \in DOMAIN struct[Here] : struct[Here][j].name = name => j = k
    BY <1>0, <2>1 DEF MembersOf
  <2>5. /\ DOMAIN stored' = Level
        /\ \A l \in Level \ {Here} : stored'[l] = stored[l]
        /\ stored'[Here] = [stored[Here] EXCEPT ![k] = x]
    BY <1>0, <1>3
  <2>6. /\ DOMAIN stored'[Here] = DOMAIN struct[Here]
        /\ stored'[Here][k] = x
        /\ \A j \in DOMAIN struct[Here] \ {k} : stored'[Here][j] = stored[Here][j]
    BY <1>0, <2>1, <2>5
  <2>7. Stores(name, type, v)
    BY <1>0, <2>1, <2>2, <2>3, <2>4, <2>5, <2>6 DEF Stores
  <2>8. Asserts(name, type)
    BY <2>3, <2>4 DEF Asserts, Named
  <2> QED
    BY <2>7, <2>8
<1>4. CASE /\ \A k \in Named(name) : struct[Here][k].type \notin Numeric
           /\ aborted' = (asserts /\ Named(name) # {})
           /\ stored' = stored
  <2>1. \A k \in DOMAIN struct[Here] : struct[Here][k].name = name =>
            ~Fits(type, struct[Here][k].type)
    BY <1>1, <1>4 DEF Named, Fits
  <2>2. Stores(name, type, v)
    BY <1>0, <1>4, <2>1 DEF Stores
  <2>3. Asserts(name, type)
    BY <1>4 DEF Asserts
  <2> QED
    BY <1>1, <1>2, <2>2, <2>3
<1> QED
  BY <1>1, <1>2, <1>3, <1>4 DEF CheckAndStore

\* A string is stored in its member, or in none.
LEMMA StringStores ==
    ASSUME TypeInv, NEW name \in Name, CheckAndStoreString(name)
    PROVE  /\ aborted' \in BOOLEAN
           /\ Stores(name, "utf8", Text)
           /\ Asserts(name, "utf8")
<1>0. /\ Here \in Level
      /\ DOMAIN stored = Level
      /\ \A l \in Level : DOMAIN stored[l] = DOMAIN struct[l]
      /\ asserts \in BOOLEAN
  BY HereType DEF TypeInv, TypeOK, Shape
<1>1. /\ DOMAIN stored' = Level
      /\ \A l \in Level \ {Here} : stored'[l] = stored[l]
      /\ stored'[Here] = [k \in DOMAIN struct[Here] |->
            IF k \in Named(name) /\ struct[Here][k].type = "string"
            THEN Text ELSE stored[Here][k]]
  BY <1>0 DEF CheckAndStoreString
<1>2. /\ DOMAIN stored'[Here] = DOMAIN struct[Here]
      /\ \A k \in DOMAIN struct[Here] :
            stored'[Here][k] = IF k \in Named(name) /\ struct[Here][k].type = "string"
                               THEN Text ELSE stored[Here][k]
  BY <1>1
<1>3. ContentsOf("string") = {Text}
  BY DEF ContentsOf
<1>4. \A type : Fits("utf8", type) <=> type = "string"
  BY DEF Fits, Numeric
<1>5. Stores(name, "utf8", Text)
  <2> SUFFICES ASSUME NEW l \in Level, NEW k \in DOMAIN struct[l]
               PROVE  IF l = Here /\ struct[l][k].name = name /\ struct[l][k].type = "string"
                      THEN stored'[l][k] = Text ELSE stored'[l][k] = stored[l][k]
    BY <1>0, <1>1, <1>2, <1>3, <1>4 DEF Stores
  <2> QED
    BY <1>1, <1>2 DEF Named
<1>6. aborted' = (asserts /\ \E k \in Named(name) : struct[Here][k].type # "string")
  BY DEF CheckAndStoreString
<1>7. Asserts(name, "utf8") /\ aborted' \in BOOLEAN
  BY <1>0, <1>4, <1>6 DEF Asserts
<1> QED
  BY <1>5, <1>7

\* An element of another type is stored in no member.
LEMMA PassStores ==
    ASSUME TypeInv, NEW name \in Name, PassOver(name)
    PROVE  Stores(name, "other", 0)
BY DEF TypeInv, Shape, PassOver, Stores, Fits, Numeric

\* The members that a step leaves alone, or stores into, have their types.
LEMMA StoresType ==
    ASSUME TypeInv, struct' = struct, DOMAIN stored' = Level,
           \A l \in Level :
              /\ DOMAIN stored'[l] = DOMAIN struct[l]
              /\ \A k \in DOMAIN struct[l] :
                    \/ stored'[l][k] = stored[l][k]
                    \/ stored'[l][k] \in ContentsOf(struct[l][k].type),
           path' \in Path, aborted' \in BOOLEAN, asserts' = asserts,
           seen' \in Seq(Element), Len(seen') <= MaxElements
    PROVE  TypeInv'
<1>1. \A l \in Level : \A k \in DOMAIN struct'[l] :
        stored'[l][k] \in {Initial} \cup ContentsOf(struct'[l][k].type)
  BY DEF TypeInv, TypeOK
<1>2. TypeOK'
  BY <1>1 DEF TypeInv, TypeOK, Path
<1>3. Shape'
  BY DEF Shape
<1> QED
  BY <1>2, <1>3 DEF TypeInv

\* A sub-document is entered from the outer struct only.
LEMMA RecurseFromOuter ==
    ASSUME TypeInv, NEW k \in DOMAIN struct[Here], FirstReflected(k)
    PROVE  path = <<>> /\ Here = "outer"
<1>1. MembersOf(Here) /\ Here \in Level
  BY HereType, StructType DEF TypeInv, TypeOK
<1>2. Here # "inner"
  BY <1>1 DEF MembersOf, FirstReflected
<1> QED
  BY <1>2 DEF Here

\* Every step keeps the types of the variables.
LEMMA NextType == TypeInv /\ [Next]_vars => TypeInv'
<1> SUFFICES ASSUME TypeInv, [Next]_vars PROVE TypeInv'
  OBVIOUS
<1>0. /\ path \in Path /\ aborted \in BOOLEAN
      /\ seen \in Seq(Element) /\ Len(seen) <= MaxElements
      /\ DOMAIN stored = Level
      /\ \A l \in Level : DOMAIN stored[l] = DOMAIN struct[l]
  BY DEF TypeInv, TypeOK, Shape, Path
<1>1. ASSUME NEW n \in Name, NEW t \in Numeric, NEW v \in ValuesOf(t),
             CheckAndStore(n, t, v)
      PROVE  TypeInv'
  <2>1. v \in Int /\ Stores(n, t, v) /\ aborted' \in BOOLEAN
    BY <1>1, StoreStores
  <2>2. seen' \in Seq(Element) /\ Len(seen') <= MaxElements
    BY <1>1, <2>1, SeeType DEF CheckAndStore
  <2>3. struct' = struct /\ path' = path /\ asserts' = asserts
    BY <1>1 DEF CheckAndStore
  <2> QED
    BY <1>0, <2>1, <2>2, <2>3, StoresType DEF Stores
<1>2. ASSUME NEW n \in Name, CheckAndStoreString(n)
      PROVE  TypeInv'
  <2>0. Visiting /\ See(n, "utf8", Text)
    BY <1>2 DEF CheckAndStoreString
  <2>1. seen' \in Seq(Element) /\ Len(seen') <= MaxElements
    <3>1. Text \in Int /\ "utf8" \in Numeric \cup {"utf8", "other"}
      BY DEF Text
    <3> HIDE DEF Text
    <3> QED
      BY <2>0, <3>1, SeeType
  <2>2. struct' = struct /\ path' = path /\ asserts' = asserts
    BY <1>2 DEF CheckAndStoreString
  <2>3. Stores(n, "utf8", Text) /\ aborted' \in BOOLEAN
    BY <1>2, StringStores
  <2> QED
    BY <1>0, <2>1, <2>2, <2>3, StoresType DEF Stores
<1>3. ASSUME NEW n \in Name, PassOver(n)
      PROVE  TypeInv'
  <2>1. seen' \in Seq(Element) /\ Len(seen') <= MaxElements
    <3>1. Visiting /\ See(n, "other", 0) /\ 0 \in Int
      BY <1>3 DEF PassOver
    <3>2. "other" \in Numeric \cup {"utf8", "other"}
      OBVIOUS
    <3> QED
      BY <3>1, <3>2, SeeType
  <2> QED
    BY <1>0, <1>3, <2>1, StoresType DEF PassOver
<1>4. ASSUME NEW n \in Name, CheckAndRecurse(n)
      PROVE  TypeInv'
  <2>1. path = <<>>
    BY <1>4, RecurseFromOuter DEF CheckAndRecurse
  <2>2. path' \in Path /\ aborted' \in BOOLEAN
    <3>1. CASE path' = Append(path, n) /\ UNCHANGED aborted
      <4>1. path' = <<n>>
        BY <2>1, <3>1
      <4> QED
        BY <1>0, <3>1, <4>1 DEF Path
    <3>2. CASE aborted' = TRUE /\ UNCHANGED path
      BY <1>0, <3>2
    <3> QED
      BY <1>4, <3>1, <3>2 DEF CheckAndRecurse
  <2> QED
    BY <1>0, <1>4, <2>2, StoresType DEF CheckAndRecurse
<1>5. ASSUME NEW n \in Name, CheckAndPass(n)
      PROVE  TypeInv'
  BY <1>0, <1>5, StoresType DEF CheckAndPass
<1>6. CASE Leave
  BY <1>0, <1>6, StoresType DEF Leave, Path
<1>7. CASE UNCHANGED vars
  BY <1>0, <1>7, StoresType DEF vars
<1> QED
  BY <1>1, <1>2, <1>3, <1>4, <1>5, <1>6, <1>7 DEF Next

\* Whatever the document is, members hold values of their types: no conversion
\* leaves one outside of what it can hold, and sub-documents are entered one deep.
THEOREM TypeCorrect == Spec => []TypeOK
<1>1. TypeInv => TypeOK
  BY DEF TypeInv
<1> QED
  BY <1>1, InitType, NextType, PTL DEF Spec

----------------------------------------------------------------------------
(***************************************************************************)
(* Loading. Loaded holds whatever sub-documents the document has: what it  *)
(* says of the inner struct it says until an element of a sub-document that*)
(* is not the inner struct's own was visited.                              *)
(***************************************************************************)

\* A step that changes neither the members nor what was seen changes nothing.
LEMMA SameLoaded ==
    ASSUME Loaded, UNCHANGED <<struct, asserts, stored, seen>>, aborted => aborted'
    PROVE  Loaded'
<1>1. \A l, k : For(l, k)' = For(l, k) /\ Fitting(l, k)' = Fitting(l, k)
  BY DEF For, Fitting, IsFor, PathsTo
<1>2. OwnDocuments' <=> OwnDocuments
  BY DEF OwnDocuments, PathsTo
<1> QED
  BY <1>1, <1>2 DEF Loaded

\* An element that is visited is the last one for the members of its name where the
\* visitor is, if they can take it, and is for no other.
LEMMA ElementLoads ==
    ASSUME TypeInv, Loaded, Visiting,
           NEW name \in Name, NEW type \in Numeric \cup {"utf8", "other"}, NEW v \in Int,
           See(name, type, v), Stores(name, type, v),
           type = "other" \/ Asserts(name, type),
           UNCHANGED <<struct, asserts, path>>
    PROVE  Loaded'
<1> SUFFICES ASSUME NEW l \in Level, NEW k \in DOMAIN struct[l]
             PROVE  /\ l = "outer" \/ OwnDocuments' =>
                          /\ Fitting(l, k)' = {} => stored'[l][k] = Initial
                          /\ \A j \in Fitting(l, k)' :
                                /\ seen'[j].value \in ContentsOf(struct[l][k].type)
                                /\ \A i \in Fitting(l, k)' : i <= j
                                => stored'[l][k] = seen'[j].value
                    /\ asserts /\ ~aborted' =>
                          \A j \in For(l, k)' :
                              seen'[j].type = "other" \/ j \in Fitting(l, k)'
  BY DEF Loaded
<1>0. PICK new : new = Len(seen')
  OBVIOUS
<1>1. /\ seen' \in Seq(Element) /\ seen \in Seq(Element)
      /\ new = Len(seen) + 1
      /\ seen'[new] = [path |-> path, name |-> name, type |-> type, value |-> v]
      /\ \A j \in 1 .. Len(seen) : seen'[j] = seen[j]
  BY <1>0, SeeType DEF TypeInv, Shape
<1>2. /\ DOMAIN seen = 1 .. Len(seen) /\ DOMAIN seen' = 1 .. new
      /\ Len(seen) \in Nat /\ new \in Nat
      /\ DOMAIN seen' = DOMAIN seen \cup {new}
      /\ \A j \in DOMAIN seen : j < new
  <2>1. /\ DOMAIN seen = 1 .. Len(seen) /\ DOMAIN seen' = 1 .. Len(seen')
        /\ Len(seen) \in Nat
    BY <1>1
  <2> QED
    BY <1>0, <1>1, <2>1
<1>3. /\ \A j \in DOMAIN seen : seen'[j] = seen[j]
      /\ seen'[new].path = path /\ seen'[new].name = name
      /\ seen'[new].type = type /\ seen'[new].value = v
  BY <1>1, <1>2
<1>4. \A m : PathsTo(m)' = PathsTo(m)
  BY DEF PathsTo
<1> DEFINE mine  == path \in PathsTo(l) /\ name = struct[l][k].name
           takes == mine /\ Fits(type, struct[l][k].type)
<1>5. /\ \A j \in DOMAIN seen : IsFor(j, l, k)' <=> IsFor(j, l, k)
      /\ IsFor(new, l, k)' <=> mine
  BY <1>3, <1>4 DEF IsFor
<1>6. /\ For(l, k)' = For(l, k) \cup (IF mine THEN {new} ELSE {})
      /\ Fitting(l, k)' = Fitting(l, k) \cup (IF takes THEN {new} ELSE {})
  <2>1. For(l, k)' = {j \in DOMAIN seen' : IsFor(j, l, k)'}
    BY DEF For
  <2>2. Fitting(l, k)' = {j \in For(l, k)' : Fits(seen'[j].type, struct[l][k].type)}
    BY DEF Fitting, Fits
  <2>3. new \notin DOMAIN seen
    BY <1>2
  <2>4. For(l, k)' = For(l, k) \cup (IF mine THEN {new} ELSE {})
    BY <1>2, <1>5, <2>1, <2>3 DEF For
  <2>5. For(l, k) \subseteq DOMAIN seen
    BY DEF For
  <2>6. \A j \in For(l, k) : seen'[j].type = seen[j].type
    BY <1>3, <2>5
  <2>7. Fitting(l, k)' = Fitting(l, k) \cup (IF takes THEN {new} ELSE {})
    BY <1>3, <2>2, <2>4, <2>6 DEF Fitting
  <2> QED
    BY <2>4, <2>7
<1>7. /\ Fitting(l, k) \subseteq For(l, k)
      /\ For(l, k) \subseteq DOMAIN seen
      /\ \A j \in For(l, k) : j < new
  BY <1>2 DEF Fitting, For
<1>8. /\ \A m : <<>> \in PathsTo(m) => m = "outer"
      /\ PathsTo("outer") = {<<>>}
  BY DEF PathsTo
<1>9. mine => l = Here /\ k \in Named(name)
  BY <1>8 DEF Here, Level, Named
<1>10. ASSUME l = "outer" \/ OwnDocuments'
       PROVE  /\ l = "outer" \/ OwnDocuments
              /\ l = Here /\ name = struct[l][k].name => mine
  <2>1. CASE l = "outer"
    BY <1>8, <2>1 DEF Here
  <2>2. CASE l = "inner" /\ OwnDocuments'
    <3>1. \A j \in DOMAIN seen' : seen'[j].path \in {<<>>} \cup PathsTo("inner")
      BY <1>4, <2>2 DEF OwnDocuments
    <3>2. OwnDocuments
      BY <1>2, <1>3, <3>1 DEF OwnDocuments
    <3>3. path \in {<<>>} \cup PathsTo("inner")
      BY <1>2, <1>3, <3>1
    <3> QED
      BY <2>2, <3>2, <3>3 DEF Here
  <2> QED
    BY <1>10, <2>1, <2>2 DEF Level
<1>11. ASSUME l = "outer" \/ OwnDocuments'
       PROVE  /\ Fitting(l, k)' = {} => stored'[l][k] = Initial
              /\ \A j \in Fitting(l, k)' :
                    /\ seen'[j].value \in ContentsOf(struct[l][k].type)
                    /\ \A i \in Fitting(l, k)' : i <= j
                    => stored'[l][k] = seen'[j].value
  <2>1. /\ Fitting(l, k) = {} => stored[l][k] = Initial
        /\ \A j \in Fitting(l, k) :
              /\ seen[j].value \in ContentsOf(struct[l][k].type)
              /\ \A i \in Fitting(l, k) : i <= j
              => stored[l][k] = seen[j].value
    BY <1>10, <1>11 DEF Loaded
  <2>2. CASE takes
    <3>1. v \in ContentsOf(struct[l][k].type) => stored'[l][k] = v
      BY <1>9, <2>2 DEF Stores
    <3>2. new \in Fitting(l, k)' /\ \A j \in Fitting(l, k) : ~(new <= j)
      BY <1>2, <1>6, <1>7, <2>2
    <3> QED
      BY <1>3, <1>6, <2>2, <3>1, <3>2
  <2>3. CASE ~takes
    <3>1. stored'[l][k] = stored[l][k]
      BY <1>10, <1>11, <2>3 DEF Stores
    <3>2. Fitting(l, k)' = Fitting(l, k)
      BY <1>6, <2>3
    <3>3. \A j \in Fitting(l, k) : seen'[j] = seen[j]
      BY <1>3, <1>7
    <3> QED
      BY <2>1, <3>1, <3>2, <3>3
  <2> QED
    BY <2>2, <2>3
<1>12. ASSUME asserts, ~aborted', NEW j \in For(l, k)'
       PROVE  seen'[j].type = "other" \/ j \in Fitting(l, k)'
  <2>1. CASE j \in For(l, k)
    <3>1. seen[j].type = "other" \/ j \in Fitting(l, k)
      BY <1>12, <2>1 DEF Loaded, Visiting
    <3>2. seen'[j] = seen[j]
      BY <1>3, <1>7, <2>1
    <3> QED
      BY <1>6, <3>1, <3>2
  <2>2. CASE mine /\ j = new
    <3>1. type = "other" \/ Fits(type, struct[l][k].type)
      BY <1>9, <1>12, <2>2 DEF Asserts
    <3> QED
      BY <1>3, <1>6, <2>2, <3>1
  <2> QED
    BY <1>6, <1>12, <2>1, <2>2
<1> QED
  BY <1>11, <1>12

\* Every step keeps the members to the document.
LEMMA NextLoaded == TypeInv /\ Loaded /\ [Next]_vars => Loaded'
<1> SUFFICES ASSUME TypeInv, Loaded, [Next]_vars PROVE Loaded'
  OBVIOUS
<1>1. ASSUME NEW n \in Name, NEW t \in Numeric, NEW v \in ValuesOf(t),
             CheckAndStore(n, t, v)
      PROVE  Loaded'
  <2>1. v \in Int /\ Stores(n, t, v) /\ Asserts(n, t)
    BY <1>1, StoreStores
  <2> QED
    BY <1>1, <2>1, ElementLoads DEF CheckAndStore
<1>2. ASSUME NEW n \in Name, CheckAndStoreString(n)
      PROVE  Loaded'
  <2>1. Stores(n, "utf8", Text) /\ Asserts(n, "utf8") /\ Text \in Int
    BY <1>2, StringStores DEF Text
  <2> QED
    BY <1>2, <2>1, ElementLoads DEF CheckAndStoreString
<1>3. ASSUME NEW n \in Name, PassOver(n)
      PROVE  Loaded'
  BY <1>3, PassStores, ElementLoads DEF PassOver
<1>4. CASE (\E n \in Name : CheckAndRecurse(n) \/ CheckAndPass(n)) \/ Leave
  BY <1>4, SameLoaded DEF CheckAndRecurse, CheckAndPass, Leave, Visiting
<1>5. CASE UNCHANGED vars
  BY <1>5, SameLoaded DEF vars
<1> QED
  BY <1>1, <1>2, <1>3, <1>4, <1>5 DEF Next

\* Every document is loaded as it is, whatever the struct, the order of the elements,
\* their types and the build are: for the members of the inner struct, as long as
\* only its own sub-documents were visited.
THEOREM DocumentsLoaded == Spec => []Loaded
<1>1. Init => Loaded
  <2> SUFFICES ASSUME Init PROVE Loaded
    OBVIOUS
  <2>1. DOMAIN seen = {}
    BY DEF Init
  <2>2. \A l \in Level : \A k \in DOMAIN struct[l] : stored[l][k] = Initial
    BY DEF Init
  <2> QED
    BY <2>1, <2>2 DEF Loaded, For, Fitting
<1> QED
  BY <1>1, InitType, NextType, NextLoaded, PTL DEF Spec

=============================================================================
