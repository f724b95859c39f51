---------------------------- MODULE MCReflection ----------------------------
(***************************************************************************)
(* Structs for the instances of Reflection: every numeric type, strings,   *)
(* a member before and one behind the reflected member, two reflected      *)
(* members, none, and names that are used at both levels.                  *)
(***************************************************************************)
EXTENDS Reflection

M(name, type) == [name |-> name, type |-> type]

MCStructs ==
    {[outer |-> <<M("a", "int32"), M("s", "struct")>>,
      inner |-> <<M("a", "string"), M("s", "double")>>],
     [outer |-> <<M("s", "struct"), M("a", "string")>>,
      inner |-> <<M("a", "int64")>>],
     [outer |-> <<M("s", "struct"), M("a", "struct")>>,
      inner |-> <<M("s", "bool"), M("a", "int32")>>],
     [outer |-> <<M("a", "bool"), M("s", "int64")>>,
      inner |-> <<M("a", "string")>>]}

=============================================================================
