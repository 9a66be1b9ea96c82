------------------------------ MODULE ValueJson ------------------------------
(***************************************************************************)
(* How a field value becomes JSON and a value again:                       *)
(* src/Sources/Serialization/Serialization.cpp and Serialization.h.  A     *)
(* value has a type and, as its data, numbers: one for a scalar, its       *)
(* components for a vector, its items for an array.  A list operation has  *)
(* <<is it explicit, explicit, added, prepended, appended, deleted,        *)
(* ordered>>, of each list an item or 0 for none.  A path, token or        *)
(* reference is a number wherever it stands: the custom data of a          *)
(* reference, which is not written, is left out.  So are GfMatrix4d, whose *)
(* conversion reads and writes beyond the matrix what is not determined,   *)
(* and VtDictionary, an object of converted values.                        *)
(***************************************************************************)
EXTENDS Integers, Sequences

Scalars == {"bool", "int", "float", "double", "string", "TfToken", "SdfSpecifier",
            "SdfVariability", "SdfValueBlock"}
Dimension == [GfVec3d |-> 3, GfVec3f |-> 3, SdfAssetPath |-> 2]
Arrays == {"VtArray<int>", "VtArray<float>", "VtArray<TfToken>", "VtArray<GfVec2f>",
           "VtArray<GfVec3f>", "vector<TfToken,allocator<TfToken>>",
           "vector<SdfPath,allocator<SdfPath>>"}
ListOps == {"SdfListOp<SdfPath>", "SdfListOp<SdfReference>", "SdfListOp<TfToken>"}
Tuples == DOMAIN Dimension

Serializable == Scalars \cup Tuples \cup Arrays \cup ListOps

\* The six lists of an operation are written, not whether it is explicit.
FromListOp(data) == Tail(data)

\* Three of them make an operation that is not explicit: added and ordered are dropped.
CreateListOp(json) == <<0, 0, 0, json[3], json[4], json[5], 0>>

\* Mutant: a list operation is never read as an explicit one.
ToListOpImplicit(json) == CreateListOp(json)

\* Without explicit items it is read as one that is not explicit.
ToListOp(json) == IF json[1] # 0 THEN <<1, json[1], 0, 0, 0, 0, 0>> ELSE CreateListOp(json)

\* A value block is null, whatever it is.
FromScalar(type, data) == IF type = "SdfValueBlock" THEN <<>> ELSE data
ToScalar(type, json) == IF type = "SdfValueBlock" THEN <<0>> ELSE json

\* value_from and value_to a value: an object with the name of the type and the data.
ToJson(v) ==
    [type |-> v.type,
     data |-> IF v.type \in ListOps THEN FromListOp(v.data)
              ELSE IF v.type \in Scalars THEN FromScalar(v.type, v.data)
              ELSE [i \in DOMAIN v.data |-> v.data[i]]]

FromJson(json) ==
    [type |-> json.type,
     data |-> IF json.type \in ListOps THEN ToListOp(json.data)
              ELSE IF json.type \in Scalars THEN ToScalar(json.type, json.data)
              ELSE IF json.type \in Tuples
              THEN [i \in 1..Dimension[json.type] |-> json.data[i]]
              ELSE [i \in DOMAIN json.data |-> json.data[i]]]

\* What another user can be told of the value.  An operation that is explicit and empty,
\* which clears a list, arrives as one that does nothing, and one with added or ordered
\* items without them.
Arrives(v) ==
    v.type \in ListOps =>
        IF v.data[1] = 1 THEN v.data[2] # 0 ELSE v.data[3] = 0 /\ v.data[7] = 0
=============================================================================
